---- MODULE Spec2Model ----
(***************************************************************************)
(* Activity-log aggregation of the classroom dashboard (csvParser):        *)
(* calculateStudentSummaries and getBehaviorBreakdown, applied to a        *)
(* materialised sequence of ActivityRecord.  The forEach callbacks are     *)
(* the steps of the state machine; the trailing map and sort belong to     *)
(* the step that returns.                                                  *)
(***************************************************************************)
EXTENDS Integers, Sequences, FiniteSets, TLC

VARIABLES
  records,     \* the ActivityRecord[] both reducers are called with
  pc,          \* "idle", or the reducer whose call is running
  idx,         \* position of the running forEach in records (from 1)
  studentMap,  \* calculateStudentSummaries: studentMap
  summaries,   \* what calculateStudentSummaries returned
  counts,      \* getBehaviorBreakdown: counts
  breakdown,   \* what getBehaviorBreakdown returned
  done,        \* the calls that have returned
  intervalSeconds,  \* getEngagementOverTime: intervalSeconds
  timeMap,     \* getEngagementOverTime: timeMap
  series,      \* what getEngagementOverTime returned
  source,      \* loadActivityLog: what the fetch of the CSV will do and give
  loadPc,      \* loadActivityLog: the await it stands at, or how it settled
  loaded,      \* loadActivityLog: the value its promise resolved to
  logged,      \* loadActivityLog: whether console.error was called
  pagePc,      \* Analysis: how far the component has come
  students,    \* Analysis: useState students
  loading,     \* Analysis: useState loading
  pieData,     \* Analysis: useMemo pieData
  engagementOverTimeData,  \* Analysis: useMemo engagementOverTimeData
  ran,         \* Analysis: the aggregations run so far, each with its input
               \* and whether the load promise had resolved
  camMounted,  \* CameraFeed: mounted, so that videoRef.current is the video
  isActive,    \* CameraFeed: useState isActive
  isLoading,   \* CameraFeed: useState isLoading
  detectedFaces,  \* CameraFeed: useState detectedFaces, as their number
  stream,      \* CameraFeed: useState stream, 0 for null
  started,     \* CameraFeed: the calls of getUserMedia made so far
  inFlight,    \* CameraFeed: the calls of getUserMedia not yet settled
  live,        \* the media streams obtained whose tracks are not stopped
  srcObject,   \* the video element: srcObject, 0 for null
  readyState,  \* the video element: readyState
  effectDue,   \* CameraFeed: isActive has changed and its effect has not run
  detectInterval,  \* CameraFeed: the detection effect holds a running interval
  sessionPoints,  \* ClassroomDashboard: useState sessionPoints
  attendanceLog,  \* ClassroomDashboard: useState attendanceLog
  snapshot,    \* ClassroomDashboard: useState snapshot
  ticks,       \* ClassroomDashboard: the ticks of the 3-second interval so far
  roster,      \* Attendance: useState students
  rosterDue,   \* Attendance: mounted, the effect of [totalStudents] has not run
  detectedCount  \* Attendance: useState detectedCount

seriesVars == <<intervalSeconds, timeMap, series>>

loaderVars == <<source, loadPc, loaded, logged>>

pageVars == <<pagePc, students, loading, pieData, engagementOverTimeData, ran>>

cameraVars == <<camMounted, isActive, isLoading, detectedFaces, stream, started,
                inFlight, live, srcObject, readyState, effectDue, detectInterval>>

dashboardVars == <<sessionPoints, attendanceLog, snapshot, ticks>>

attendanceVars == <<roster, rosterDue, detectedCount>>

componentVars == <<cameraVars, dashboardVars, attendanceVars>>

outside == <<loaderVars, pageVars, componentVars>>

vars == <<records, pc, idx, studentMap, summaries, counts, breakdown, done,
          seriesVars, outside>>

(***************************************************************************)
(* Bounds of the explored inputs.                                          *)
(***************************************************************************)
\* longest log in which every combination of student and label is tried
MaxLen == 3
\* a short log is replayed this many times to reach the rounding thresholds
MaxRepeat == 15
\* longest replayed log
MaxRecords == 30
\* longest run of one label in a one-student log
MaxBlock == 8
\* longest log given to getEngagementOverTime
MaxSeriesLen == 3
\* longest log on which the three reducers are called again and again
MaxAllLen == 2
\* most data lines of a CSV text given to loadActivityLog
MaxLines == 2
\* longest log loaded by the page with the five-minute series
MaxPageLen == 2
\* most calls of getUserMedia made by one CameraFeed
MaxStarts == 3
\* most ticks of the dashboard's interval
MaxTicks == 2
\* Math.random() is explored in steps of 1 / RandomScale
RandomScale == 1000
\* most students marked present by the simulated attendance
MaxMarks == 3

(***************************************************************************)
(* Program constants.                                                      *)
(***************************************************************************)
\* the literal divisor of "Math.round(frames / 30)"
FramesPerMinute == 30
\* getEngagementOverTime(records, intervalSeconds = 10)
DefaultIntervalSeconds == 10
\* Analysis: Math.floor(date.getSeconds() / 10) * 10
PageIntervalSeconds == 10
\* pages/Analysis.tsx: Math.floor(date.getMinutes() / 5) * 5
PageIntervalMinutes == 5
\* CameraFeed: videoRef.current?.readyState === 4
HAVE_ENOUGH_DATA == 4
\* mapToStudentActivity: `S${1000 + summary.studentId}`
StudentIdBase == 1000
\* mapToStudentActivity: summary.totalMinutes || 60
DefaultTotalMinutes == 60
\* mapToStudentActivity: summary.timeline.slice(0, 50)
TimelineLimit == 50

ATTENTIVE == "Studying/Attentive"
SLEEPING == "Sleeping"
TALKING == "Talking in Class"
PHONE == "Phone"

(***************************************************************************)
(* Strings.  TLC has no character access to strings, so each label of the  *)
(* explored alphabet is spelled out; String.prototype.includes is then     *)
(* computed on the characters.                                             *)
(***************************************************************************)
StudentIds == {3, 7, 12}

ActivityLabels ==
  {ATTENTIVE, SLEEPING, TALKING, PHONE, "Using Phone", "Eating", "constructor"}

CharsOf(s) ==
  CASE s = "Studying/Attentive" ->
         <<"S","t","u","d","y","i","n","g","/","A","t","t","e","n","t","i","v","e">>
    [] s = "Sleeping" -> <<"S","l","e","e","p","i","n","g">>
    [] s = "Talking in Class" ->
         <<"T","a","l","k","i","n","g"," ","i","n"," ","C","l","a","s","s">>
    [] s = "Phone" -> <<"P","h","o","n","e">>
    [] s = "Using Phone" -> <<"U","s","i","n","g"," ","P","h","o","n","e">>
    [] s = "Eating" -> <<"E","a","t","i","n","g">>
    [] s = "constructor" -> <<"c","o","n","s","t","r","u","c","t","o","r">>

\* str.includes(sub)
Includes(str, sub) ==
  LET a == CharsOf(str)
      b == CharsOf(sub)
  IN  \E k \in 0..(Len(a) - Len(b)) : SubSeq(a, k + 1, k + Len(b)) = b

(***************************************************************************)
(* Numbers.  Frame counts are naturals; Math.round rounds halves up.       *)
(***************************************************************************)
\* Math.round(num / den) for num >= 0, den > 0
MathRound(num, den) == (2 * num + den) \div (2 * den)

(***************************************************************************)
(* Input logs.  An ActivityRecord carries the timestamp as the second of   *)
(* the day it denotes and the confidence in hundredths.  A log is a short  *)
(* sequence of (studentId, activity) observations replayed `rep` times,    *)
(* one record a second.  Three families of logs are explored: every short  *)
(* log of two students over all labels, replayed; one student's run of     *)
(* attentive frames followed by a run of another label; and three students *)
(* of two frames each, in every order.                                     *)
(***************************************************************************)
Observations == [studentId : {3, 7}, activity : ActivityLabels]

ShortLogs == UNION {[1..n -> Observations] : n \in 0..MaxLen}

Repeats == {1, MaxRepeat - 1, MaxRepeat}

StartOfLog == 9 * 3600

ConfidenceAt(k) == 80 + ((7 * k) % 20)

LogOf(base, rep) ==
  [k \in 1..(Len(base) * rep) |->
     LET o == base[((k - 1) % Len(base)) + 1]
     IN  [timestamp |-> StartOfLog + k - 1,
          studentId |-> o.studentId,
          activity |-> o.activity,
          confidence |-> ConfidenceAt(k)]]

ReplayedLogs ==
  {LogOf(b, r) : <<b, r>> \in
     {x \in ShortLogs \X Repeats : Len(x[1]) * x[2] <= MaxRecords}}

\* a attentive frames, then b frames of another label, of one student
BlockLogs ==
  {LogOf([k \in 1..(a + b) |->
            [studentId |-> id,
             activity |-> IF k <= a THEN ATTENTIVE ELSE TALKING]], 1) :
     <<id, a, b>> \in {3, 7} \X (0..MaxBlock) \X (0..MaxBlock)}

\* the two frames of a student: both, one or none attentive
FramePairs ==
  {<<ATTENTIVE, ATTENTIVE>>, <<ATTENTIVE, SLEEPING>>, <<"Using Phone", "Eating">>}

\* the three students one after another in the order `order`, student
\* order[j] with the frames pair[j]
RankingLogs ==
  {LogOf([k \in 1..6 |->
            [studentId |-> order[((k - 1) \div 2) + 1],
             activity |-> pair[((k - 1) \div 2) + 1][((k - 1) % 2) + 1]]], 1) :
     <<order, pair>> \in
       {o \in [1..3 -> StudentIds] : \A j1, j2 \in 1..3 : o[j1] = o[j2] => j1 = j2}
         \X [1..3 -> FramePairs]}

Logs == ReplayedLogs \cup BlockLogs \cup RankingLogs

(***************************************************************************)
(* Map<number, StudentSummary>: entries in insertion order.                *)
(***************************************************************************)
MapIndex(m, k) == CHOOSE j \in 1..Len(m) : m[j].key = k

MapHas(m, k) == \E j \in 1..Len(m) : m[j].key = k

MapGet(m, k) == m[MapIndex(m, k)].value

MapSet(m, k, v) ==
  IF MapHas(m, k)
    THEN [m EXCEPT ![MapIndex(m, k)] = [key |-> k, value |-> v]]
    ELSE Append(m, [key |-> k, value |-> v])

MapValues(m) == [j \in 1..Len(m) |-> m[j].value]

(***************************************************************************)
(* calculateStudentSummaries                                               *)
(***************************************************************************)
NewStudent(id) ==
  [studentId |-> id, totalMinutes |-> 0, attentiveMinutes |-> 0,
   inattentiveMinutes |-> 0, sleepingMinutes |-> 0, talkingMinutes |-> 0,
   phoneMinutes |-> 0, engagementPct |-> 0, timeline |-> <<>>]

\* unshift instead of push
PushTimelineFront(student, record) ==
  [student EXCEPT !.timeline =
     <<[time |-> record.timestamp, behavior |-> record.activity,
        confidence |-> record.confidence]>> \o @]

\* student.timeline.push({time, behavior, confidence})
PushTimeline(student, record) ==
  [student EXCEPT !.timeline =
     Append(@, [time |-> record.timestamp, behavior |-> record.activity,
                confidence |-> record.confidence])]

\* the else dropped: every record counts as inattentive
CountBehaviorsNoElse(student, record) ==
  LET s1 == [student EXCEPT !.totalMinutes = @ + 1, !.inattentiveMinutes = @ + 1]
  IN  IF record.activity = ATTENTIVE
        THEN [s1 EXCEPT !.attentiveMinutes = @ + 1]
        ELSE IF record.activity = SLEEPING
          THEN [s1 EXCEPT !.sleepingMinutes = @ + 1]
          ELSE IF record.activity = TALKING
            THEN [s1 EXCEPT !.talkingMinutes = @ + 1]
            ELSE IF Includes(record.activity, PHONE)
              THEN [s1 EXCEPT !.phoneMinutes = @ + 1]
              ELSE s1

\* the counting part of the forEach callback
CountBehaviors(student, record) ==
  LET s1 == [student EXCEPT !.totalMinutes = @ + 1]
  IN  IF record.activity = ATTENTIVE
        THEN [s1 EXCEPT !.attentiveMinutes = @ + 1]
        ELSE LET s2 == [s1 EXCEPT !.inattentiveMinutes = @ + 1]
             IN  IF record.activity = SLEEPING
                   THEN [s2 EXCEPT !.sleepingMinutes = @ + 1]
                   ELSE IF record.activity = TALKING
                     THEN [s2 EXCEPT !.talkingMinutes = @ + 1]
                     ELSE IF Includes(record.activity, PHONE)
                       THEN [s2 EXCEPT !.phoneMinutes = @ + 1]
                       ELSE s2

\* one invocation of the forEach callback; the summary object is shared with
\* the map, so its update is an update of the map's entry
SummaryCallback(m, record) ==
  LET m1 == IF ~MapHas(m, record.studentId)
              THEN MapSet(m, record.studentId, NewStudent(record.studentId))
              ELSE m
      student == MapGet(m1, record.studentId)
  IN  MapSet(m1, record.studentId,
             CountBehaviors(PushTimeline(student, record), record))

\* Math.floor instead of Math.round
EngagementPctTruncated(attentiveFrames, totalFrames) ==
  (attentiveFrames * 100) \div totalFrames

\* a factor of 1000 instead of 100
EngagementPctPerMille(attentiveFrames, totalFrames) ==
  MathRound(attentiveFrames * 1000, totalFrames)

EngagementPct(attentiveFrames, totalFrames) ==
  MathRound(attentiveFrames * 100, totalFrames)

\* Math.floor instead of Math.round
ToMinutesTruncated(frames) == frames \div FramesPerMinute

ToMinutes(frames) == MathRound(frames, FramesPerMinute)

ConvertStudent(student) ==
  LET totalFrames == student.totalMinutes
      attentiveFrames == student.attentiveMinutes
  IN  [student EXCEPT
         !.totalMinutes = ToMinutes(totalFrames),
         !.attentiveMinutes = ToMinutes(attentiveFrames),
         !.inattentiveMinutes = ToMinutes(student.inattentiveMinutes),
         !.sleepingMinutes = ToMinutes(student.sleepingMinutes),
         !.talkingMinutes = ToMinutes(student.talkingMinutes),
         !.phoneMinutes = ToMinutes(student.phoneMinutes),
         !.engagementPct = EngagementPct(attentiveFrames, totalFrames)]

\* the comparator with its operands exchanged
CompareSummariesAscending(a, b) == a.engagementPct - b.engagementPct

\* the comparator (a, b) => b.engagementPct - a.engagementPct
CompareSummaries(a, b) == b.engagementPct - a.engagementPct

\* Array.prototype.sort is stable: an element goes behind every element the
\* comparator does not put after it
SortInsert(sorted, x) ==
  LET after == {j \in 1..Len(sorted) : CompareSummaries(sorted[j], x) > 0}
      at == IF after = {} THEN Len(sorted) + 1
            ELSE CHOOSE j \in after : \A j2 \in after : j <= j2
  IN  SubSeq(sorted, 1, at - 1) \o <<x>> \o SubSeq(sorted, at, Len(sorted))

RECURSIVE SortSummariesFrom(_, _, _)
SortSummariesFrom(sorted, arr, j) ==
  IF j > Len(arr) THEN sorted
  ELSE SortSummariesFrom(SortInsert(sorted, arr[j]), arr, j + 1)

SortSummaries(arr) == SortSummariesFrom(<<>>, arr, 1)

\* students of less than half a minute of frames filtered out of the result
FinishSummariesNonZero(m) ==
  LET vals == MapValues(m)
      kept == SelectSeq([j \in 1..Len(vals) |-> ConvertStudent(vals[j])],
                        LAMBDA x : x.totalMinutes > 0)
  IN  SortSummaries(kept)

\* Array.from(studentMap.values()).map(...) and the sort that returns
FinishSummaries(m) ==
  LET vals == MapValues(m)
  IN  SortSummaries([j \in 1..Len(vals) |-> ConvertStudent(vals[j])])

(***************************************************************************)
(* getBehaviorBreakdown.  `counts` is a plain object: its own enumerable   *)
(* properties in creation order, over Object.prototype.  A JavaScript      *)
(* number is a natural or NaN.                                             *)
(***************************************************************************)
Num(n) == [nan |-> FALSE, n |-> n]

NaN == [nan |-> TRUE, n |-> 0]

\* v + 1
PlusOne(v) == IF v.nan THEN NaN ELSE Num(v.n + 1)

\* property names every plain object inherits from Object.prototype
ObjectPrototypeKeys ==
  {"constructor", "toString", "valueOf", "hasOwnProperty", "isPrototypeOf",
   "propertyIsEnumerable", "toLocaleString", "__proto__"}

InitialCounts ==
  <<[name |-> ATTENTIVE, value |-> Num(0)],
    [name |-> TALKING, value |-> Num(0)],
    [name |-> SLEEPING, value |-> Num(0)],
    [name |-> PHONE, value |-> Num(0)]>>

HasOwn(obj, key) == \E j \in 1..Len(obj) : obj[j].name = key

\* key in obj
HasProperty(obj, key) == HasOwn(obj, key) \/ key \in ObjectPrototypeKeys

\* obj[key]++ : an own count is incremented; an inherited member (a function)
\* converts to NaN, and NaN + 1 is stored as a new own property of obj, except
\* under "__proto__", whose setter ignores a number
Increment(obj, key) ==
  IF HasOwn(obj, key)
    THEN LET j == CHOOSE j \in 1..Len(obj) : obj[j].name = key
         IN  [obj EXCEPT ![j].value = PlusOne(@)]
    ELSE IF key = "__proto__" THEN obj
    ELSE Append(obj, [name |-> key, value |-> NaN])

\* one invocation of the forEach callback
BreakdownCallback(obj, record) ==
  IF HasProperty(obj, record.activity)
    THEN Increment(obj, record.activity)
    ELSE IF Includes(record.activity, PHONE)
      THEN Increment(obj, PHONE)
      ELSE obj

\* buckets that count nothing left out of the result
ObjectEntriesNonZero(obj) ==
  SelectSeq([j \in 1..Len(obj) |-> [name |-> obj[j].name, value |-> obj[j].value]],
            LAMBDA x : x.value.nan \/ x.value.n > 0)

\* Object.entries(counts).map(([name, value]) => ({ name, value }))
ObjectEntries(obj) ==
  [j \in 1..Len(obj) |-> [name |-> obj[j].name, value |-> obj[j].value]]

(***************************************************************************)
(* getEngagementOverTime.  A timestamp denotes an instant, counted here in *)
(* seconds of local time from the midnight that starts the log's first     *)
(* day; new Date(timestamp) and its getters read the clock of that         *)
(* instant.  Bucket keys are strings, kept as their characters.            *)
(***************************************************************************)
GetHours(t) == (t \div 3600) % 24

GetMinutes(t) == (t \div 60) % 60

GetSeconds(t) == t % 60

DigitChars == <<"0", "1", "2", "3", "4", "5", "6", "7", "8", "9">>

\* String(n) for a natural n
RECURSIVE NumberToString(_)
NumberToString(n) ==
  IF n < 10 THEN <<DigitChars[n + 1]>>
  ELSE NumberToString(n \div 10) \o <<DigitChars[(n % 10) + 1]>>

\* str.padStart(2, '0')
PadStart2(str) ==
  IF Len(str) >= 2 THEN str ELSE [k \in 1..(2 - Len(str)) |-> "0"] \o str

\* the parts of the key not padded
IntervalKeyUnpadded(timestamp, interval) ==
  NumberToString(GetHours(timestamp)) \o <<":">>
    \o NumberToString(GetMinutes(timestamp)) \o <<":">>
    \o NumberToString((GetSeconds(timestamp) \div interval) * interval)

\* the template literal of intervalKey
IntervalKey(timestamp, interval) ==
  PadStart2(NumberToString(GetHours(timestamp))) \o <<":">>
    \o PadStart2(NumberToString(GetMinutes(timestamp))) \o <<":">>
    \o PadStart2(NumberToString((GetSeconds(timestamp) \div interval) * interval))

\* collation weight of a character of a key: punctuation sorts before digits
CollationRank(c) ==
  IF c = ":" THEN 0 ELSE CHOOSE d \in 1..10 : DigitChars[d] = c

\* a.localeCompare(b): negative, zero or positive
RECURSIVE LocaleCompare(_, _)
LocaleCompare(a, b) ==
  IF a = <<>> /\ b = <<>> THEN 0
  ELSE IF a = <<>> THEN -1
  ELSE IF b = <<>> THEN 1
  ELSE IF CollationRank(Head(a)) < CollationRank(Head(b)) THEN -1
  ELSE IF CollationRank(Head(a)) > CollationRank(Head(b)) THEN 1
  ELSE LocaleCompare(Tail(a), Tail(b))

\* one invocation of the forEach callback
SeriesCallback(m, record, interval) ==
  LET intervalKey == IntervalKey(record.timestamp, interval)
      m1 == IF ~MapHas(m, intervalKey)
              THEN MapSet(m, intervalKey, [total |-> 0, attentive |-> 0])
              ELSE m
      bucket == MapGet(m1, intervalKey)
      counted == [bucket EXCEPT
                    !.total = @ + 1,
                    !.attentive = IF record.activity = ATTENTIVE THEN @ + 1 ELSE @]
  IN  MapSet(m1, intervalKey, counted)

\* ([time, data]) => ({ time, AttentivePct })
SeriesPoint(entry) ==
  [time |-> entry.key,
   AttentivePct |-> MathRound(entry.value.attentive * 100, entry.value.total)]

\* the comparator with its operands exchanged
CompareSeriesDescending(a, b) == LocaleCompare(b.time, a.time)

\* the comparator (a, b) => a.time.localeCompare(b.time)
CompareSeries(a, b) == LocaleCompare(a.time, b.time)

SeriesSortInsert(sorted, x) ==
  LET after == {j \in 1..Len(sorted) : CompareSeries(sorted[j], x) > 0}
      at == IF after = {} THEN Len(sorted) + 1
            ELSE CHOOSE j \in after : \A j2 \in after : j <= j2
  IN  SubSeq(sorted, 1, at - 1) \o <<x>> \o SubSeq(sorted, at, Len(sorted))

RECURSIVE SortSeriesFrom(_, _, _)
SortSeriesFrom(sorted, arr, j) ==
  IF j > Len(arr) THEN sorted
  ELSE SortSeriesFrom(SeriesSortInsert(sorted, arr[j]), arr, j + 1)

SortSeries(arr) == SortSeriesFrom(<<>>, arr, 1)

\* the sort left out: buckets in the order they were first seen
FinishSeriesUnsorted(m) == [j \in 1..Len(m) |-> SeriesPoint(m[j])]

\* Array.from(timeMap.entries()).map(...).sort(...)
FinishSeries(m) == SortSeries([j \in 1..Len(m) |-> SeriesPoint(m[j])])

(***************************************************************************)
(* loadActivityLog.  The CSV text is a string, kept as its characters; a   *)
(* parsed number is a natural or NaN, a confidence counted in hundredths.  *)
(* A value that can be undefined carries a flag.                           *)
(***************************************************************************)
IsWhitespace(c) == c \in {" ", "\n", "\r", "\t"}

RECURSIVE TrimStart(_)
TrimStart(str) ==
  IF str # <<>> /\ IsWhitespace(Head(str)) THEN TrimStart(Tail(str)) ELSE str

RECURSIVE TrimEnd(_)
TrimEnd(str) ==
  IF str # <<>> /\ IsWhitespace(str[Len(str)])
    THEN TrimEnd(SubSeq(str, 1, Len(str) - 1))
    ELSE str

\* str.trim()
Trim(str) == TrimEnd(TrimStart(str))

\* str.split(sep) for a one-character separator
Split(str, sep) ==
  LET at == {i \in 1..Len(str) : str[i] = sep}
      nth(k) == CHOOSE i \in at : Cardinality({j \in at : j < i}) = k - 1
      n == Cardinality(at)
  IN  [k \in 1..(n + 1) |->
         SubSeq(str, IF k = 1 THEN 1 ELSE nth(k - 1) + 1,
                     IF k = n + 1 THEN Len(str) ELSE nth(k) - 1)]

IsDigit(c) == \E d \in 1..10 : DigitChars[d] = c

DigitValue(c) == (CHOOSE d \in 1..10 : DigitChars[d] = c) - 1

\* the longest prefix of str made of digits
RECURSIVE DigitsPrefix(_)
DigitsPrefix(str) ==
  IF str # <<>> /\ IsDigit(Head(str))
    THEN <<Head(str)>> \o DigitsPrefix(Tail(str))
    ELSE <<>>

RECURSIVE DigitsValue(_)
DigitsValue(digits) ==
  IF digits = <<>> THEN 0
  ELSE 10 * DigitsValue(SubSeq(digits, 1, Len(digits) - 1))
         + DigitValue(digits[Len(digits)])

Undefined == [defined |-> FALSE, chars |-> <<>>]

\* element k (from 1) of a destructured array
ElementAt(arr, k) ==
  IF k <= Len(arr) THEN [defined |-> TRUE, chars |-> arr[k]] ELSE Undefined

\* parseInt(x): the digits a string starts with, after white space
ParseInt(x) ==
  IF ~x.defined THEN NaN
  ELSE LET digits == DigitsPrefix(TrimStart(x.chars))
       IN  IF digits = <<>> THEN NaN ELSE Num(DigitsValue(digits))

\* parseFloat(x), in hundredths: digits, then a point and digits
ParseFloat(x) ==
  IF ~x.defined THEN NaN
  ELSE LET str == TrimStart(x.chars)
           whole == DigitsPrefix(str)
           rest == SubSeq(str, Len(whole) + 1, Len(str))
           frac == IF rest # <<>> /\ Head(rest) = "."
                     THEN DigitsPrefix(Tail(rest)) ELSE <<>>
       IN  IF whole = <<>> /\ frac = <<>> THEN NaN
           ELSE Num(100 * DigitsValue(whole)
                      + DigitsValue(SubSeq(frac \o <<"0", "0">>, 1, 2)))

Thrown == [thrown |-> TRUE, value |-> <<>>]

Returned(v) == [thrown |-> FALSE, value |-> v]

\* the body of the for loop for one line: the record pushed, or the
\* TypeError of calling trim on undefined
ParseLine(line) ==
  LET fields == Split(line, ",")
      timestamp == ElementAt(fields, 1)
      studentId == ElementAt(fields, 2)
      activity == ElementAt(fields, 3)
      confidence == ElementAt(fields, 4)
  IN  IF ~timestamp.defined \/ ~activity.defined THEN Thrown
      ELSE Returned([timestamp |-> Trim(timestamp.chars),
                     studentId |-> ParseInt(studentId),
                     activity |-> Trim(activity.chars),
                     confidence |-> ParseFloat(confidence)])

\* the loop from index 0: the header parsed as a record
DataLinesWithHeader(lines) == lines

\* for (let i = 1; i < lines.length; i++)
DataLines(lines) == SubSeq(lines, 2, Len(lines))

RECURSIVE ParseLinesFrom(_, _, _)
ParseLinesFrom(lines, i, parsed) ==
  IF i > Len(lines) THEN Returned(parsed)
  ELSE LET one == ParseLine(lines[i])
       IN  IF one.thrown THEN Thrown
           ELSE ParseLinesFrom(lines, i + 1, Append(parsed, one.value))

\* from text.trim().split to return records
ParseText(text) ==
  ParseLinesFrom(DataLines(Split(Trim(text), "\n")), 1, <<>>)

\* the exception thrown on to the caller
TryCatchRethrow(outcome) ==
  IF outcome.thrown
    THEN [pc |-> "rejected", value |-> <<>>, logged |-> TRUE]
    ELSE [pc |-> "resolved", value |-> outcome.value, logged |-> FALSE]

\* try { ... return records } catch (error) { console.error(...); return [] }
TryCatch(outcome) ==
  IF outcome.thrown
    THEN [pc |-> "resolved", value |-> <<>>, logged |-> TRUE]
    ELSE [pc |-> "resolved", value |-> outcome.value, logged |-> FALSE]

(***************************************************************************)
(* CSV texts.  A text is written from a document: a header line and data   *)
(* lines of a timestamp, a studentId, an activity and a confidence, of     *)
(* which a line may have only the first fields or one field too many; the  *)
(* fields may stand between blanks and the text may end with a newline.    *)
(* The text of the empty document is empty.                                *)
(***************************************************************************)
HeaderLine ==
  <<"t","i","m","e","s","t","a","m","p",",","s","t","u","d","e","n","t","I","d",
    ",","a","c","t","i","v","i","t","y",",","c","o","n","f","i","d","e","n","c","e">>

RECURSIVE Join(_, _)
Join(parts, sep) ==
  IF parts = <<>> THEN <<>>
  ELSE IF Len(parts) = 1 THEN parts[1]
  ELSE parts[1] \o <<sep>> \o Join(Tail(parts), sep)

\* the four fields of data line k, and a fifth
FieldsOfRow(row, k) ==
  <<IntervalKey(StartOfLog + k - 1, 1),
    NumberToString(row.studentId),
    CharsOf(row.activity),
    <<"0", ".">> \o PadStart2(NumberToString(ConfidenceAt(k))),
    <<"0">>>>

WriteLine(row, k, pad) ==
  LET fields == SubSeq(FieldsOfRow(row, k), 1, row.nfields)
  IN  Join([j \in 1..Len(fields) |->
              IF pad THEN <<" ">> \o fields[j] \o <<" ">> ELSE fields[j]], ",")

WriteText(doc) ==
  IF ~doc.header THEN <<>>
  ELSE Join(<<HeaderLine>> \o [k \in 1..Len(doc.rows) |-> WriteLine(doc.rows[k], k, doc.pad)],
            "\n")
         \o (IF doc.newline THEN <<"\n">> ELSE <<>>)

Rows == [studentId : {3, 12}, activity : {ATTENTIVE, TALKING}, nfields : 1..5]

Documents ==
  {[header |-> FALSE, rows |-> <<>>, pad |-> FALSE, newline |-> FALSE]}
    \cup [header : {TRUE},
          rows : UNION {[1..n -> Rows] : n \in 0..MaxLines},
          pad : BOOLEAN, newline : BOOLEAN]

\* what fetch and response.text() will do, and the text they give
Sources ==
  {[fetch |-> o[1], read |-> o[2], doc |-> d, text |-> WriteText(d)] :
     <<o, d>> \in {<<"ok", "ok">>, <<"fail", "ok">>, <<"ok", "fail">>} \X Documents}

\* the Analysis component is not mounted
PageNotMounted ==
  /\ pagePc = "unmounted"
  /\ students = <<>>
  /\ loading = TRUE
  /\ pieData = <<>>
  /\ engagementOverTimeData = <<>>
  /\ ran = {}

\* no CameraFeed is mounted
CameraNotMounted ==
  /\ camMounted = FALSE
  /\ isActive = FALSE
  /\ isLoading = FALSE
  /\ detectedFaces = 0
  /\ stream = 0
  /\ started = 0
  /\ inFlight = {}
  /\ live = {}
  /\ srcObject = 0
  /\ readyState = 0
  /\ effectDue = FALSE
  /\ detectInterval = FALSE

\* no ClassroomDashboard is mounted
DashboardNotMounted ==
  /\ sessionPoints = <<>>
  /\ attendanceLog = <<>>
  /\ snapshot = <<>>
  /\ ticks = 0

\* no Attendance page is mounted
AttendanceNotMounted ==
  /\ roster = <<>>
  /\ rosterDue = FALSE
  /\ detectedCount = 0

ComponentsNotMounted ==
  /\ CameraNotMounted
  /\ DashboardNotMounted
  /\ AttendanceNotMounted

\* loadActivityLog has not been called: the reducers are applied to records
\* that are already there
LoaderNotCalled ==
  /\ source = [fetch |-> "ok", read |-> "ok", text |-> <<>>,
               doc |-> [header |-> FALSE, rows |-> <<>>, pad |-> FALSE,
                        newline |-> FALSE]]
  /\ loadPc = "idle"
  /\ loaded = <<>>
  /\ logged = FALSE

\* a map that outlives the call instead of one made by the call
KeptStudentMap == studentMap

\* a map that starts with a student of the roster who has no record
RosterStudentMap == <<[key |-> 12, value |-> NewStudent(12)]>>

\* const studentMap = new Map()
NewStudentMap == <<>>

\* const timeMap = new Map()
NewTimeMap == <<>>

(***************************************************************************)
(* The state machine: the two reducers are called, in either order, on the *)
(* same records; a call runs to its return before the next one starts.     *)
(***************************************************************************)
Init ==
  /\ records \in Logs
  /\ pc = "idle"
  /\ idx = 0
  /\ studentMap = <<>>
  /\ summaries = <<>>
  /\ counts = <<>>
  /\ breakdown = <<>>
  /\ done = {}
  /\ intervalSeconds = DefaultIntervalSeconds
  /\ timeMap = <<>>
  /\ series = <<>>
  /\ LoaderNotCalled
  /\ PageNotMounted
  /\ ComponentsNotMounted

CallCalculateStudentSummaries ==
  /\ pc = "idle"
  /\ "summaries" \notin done
  /\ pc' = "summarize"
  /\ studentMap' = NewStudentMap
  /\ idx' = 1
  /\ UNCHANGED <<records, summaries, counts, breakdown, done>>
  /\ UNCHANGED <<seriesVars, outside>>

SummariesForEach ==
  /\ pc = "summarize"
  /\ idx <= Len(records)
  /\ studentMap' = SummaryCallback(studentMap, records[idx])
  /\ idx' = idx + 1
  /\ UNCHANGED <<records, pc, summaries, counts, breakdown, done>>
  /\ UNCHANGED <<seriesVars, outside>>

SummariesReturn ==
  /\ pc = "summarize"
  /\ idx > Len(records)
  /\ summaries' = FinishSummaries(studentMap)
  /\ done' = done \cup {"summaries"}
  /\ pc' = "idle"
  /\ UNCHANGED <<records, idx, studentMap, counts, breakdown>>
  /\ UNCHANGED <<seriesVars, outside>>

CallGetBehaviorBreakdown ==
  /\ pc = "idle"
  /\ "breakdown" \notin done
  /\ pc' = "breakdown"
  /\ counts' = InitialCounts
  /\ idx' = 1
  /\ UNCHANGED <<records, studentMap, summaries, breakdown, done>>
  /\ UNCHANGED <<seriesVars, outside>>

BreakdownForEach ==
  /\ pc = "breakdown"
  /\ idx <= Len(records)
  /\ counts' = BreakdownCallback(counts, records[idx])
  /\ idx' = idx + 1
  /\ UNCHANGED <<records, pc, studentMap, summaries, breakdown, done>>
  /\ UNCHANGED <<seriesVars, outside>>

BreakdownReturn ==
  /\ pc = "breakdown"
  /\ idx > Len(records)
  /\ breakdown' = ObjectEntries(counts)
  /\ done' = done \cup {"breakdown"}
  /\ pc' = "idle"
  /\ UNCHANGED <<records, idx, studentMap, summaries, counts>>
  /\ UNCHANGED <<seriesVars, outside>>

Next ==
  \/ CallCalculateStudentSummaries
  \/ SummariesForEach
  \/ SummariesReturn
  \/ CallGetBehaviorBreakdown
  \/ BreakdownForEach
  \/ BreakdownReturn

Spec == Init /\ [][Next]_vars

(***************************************************************************)
(* getEngagementOverTime on logs whose timestamps are in any order, fall   *)
(* into one bucket or several, and may pass midnight, for several          *)
(* intervals.                                                              *)
(***************************************************************************)
\* 09:01:10, 09:01:15, 09:03:50, 10:00:00, 23:59:55 and 00:00:05 the day after
SeriesTimes ==
  {9 * 3600 + 60 + 10, 9 * 3600 + 60 + 15, 9 * 3600 + 3 * 60 + 50,
   10 * 3600, 23 * 3600 + 59 * 60 + 55, 24 * 3600 + 5}

Intervals == {1, 7, 10, 60, 300}

SeriesObservations == [timestamp : SeriesTimes, activity : {ATTENTIVE, SLEEPING}]

SeriesLogs ==
  UNION {{[k \in 1..n |->
             [timestamp |-> b[k].timestamp, studentId |-> 3,
              activity |-> b[k].activity, confidence |-> ConfidenceAt(k)]] :
            b \in [1..n -> SeriesObservations]} : n \in 0..MaxSeriesLen}

InitSeries ==
  /\ records \in SeriesLogs
  /\ intervalSeconds \in Intervals
  /\ pc = "idle"
  /\ idx = 0
  /\ studentMap = <<>>
  /\ summaries = <<>>
  /\ counts = <<>>
  /\ breakdown = <<>>
  /\ done = {}
  /\ timeMap = <<>>
  /\ series = <<>>
  /\ LoaderNotCalled
  /\ PageNotMounted
  /\ ComponentsNotMounted

CallGetEngagementOverTime ==
  /\ pc = "idle"
  /\ "series" \notin done
  /\ pc' = "series"
  /\ timeMap' = NewTimeMap
  /\ idx' = 1
  /\ UNCHANGED <<records, studentMap, summaries, counts, breakdown, done>>
  /\ UNCHANGED <<intervalSeconds, series, outside>>

SeriesForEach ==
  /\ pc = "series"
  /\ idx <= Len(records)
  /\ timeMap' = SeriesCallback(timeMap, records[idx], intervalSeconds)
  /\ idx' = idx + 1
  /\ UNCHANGED <<records, pc, studentMap, summaries, counts, breakdown, done>>
  /\ UNCHANGED <<intervalSeconds, series, outside>>

SeriesReturn ==
  /\ pc = "series"
  /\ idx > Len(records)
  /\ series' = FinishSeries(timeMap)
  /\ done' = done \cup {"series"}
  /\ pc' = "idle"
  /\ UNCHANGED <<records, idx, studentMap, summaries, counts, breakdown>>
  /\ UNCHANGED <<intervalSeconds, timeMap, outside>>

NextSeries ==
  \/ CallGetEngagementOverTime
  \/ SeriesForEach
  \/ SeriesReturn

SpecSeries == InitSeries /\ [][NextSeries]_vars

(***************************************************************************)
(* The three reducers called on the same records in any order and any      *)
(* number of times, one call running at a time.                            *)
(***************************************************************************)
AllLogs ==
  {LogOf(b, 1) : b \in UNION {[1..n -> Observations] : n \in 0..MaxAllLen}}

InitAll ==
  /\ records \in AllLogs
  /\ intervalSeconds \in {1, DefaultIntervalSeconds}
  /\ pc = "idle"
  /\ idx = 0
  /\ studentMap = <<>>
  /\ summaries = <<>>
  /\ counts = <<>>
  /\ breakdown = <<>>
  /\ done = {}
  /\ timeMap = <<>>
  /\ series = <<>>
  /\ LoaderNotCalled
  /\ PageNotMounted
  /\ ComponentsNotMounted

CallAgainCalculateStudentSummaries ==
  /\ pc = "idle"
  /\ "summaries" \in done
  /\ pc' = "summarize"
  /\ studentMap' = NewStudentMap
  /\ idx' = 1
  /\ UNCHANGED <<records, summaries, counts, breakdown, done>>
  /\ UNCHANGED <<seriesVars, outside>>

CallAgainGetBehaviorBreakdown ==
  /\ pc = "idle"
  /\ "breakdown" \in done
  /\ pc' = "breakdown"
  /\ counts' = InitialCounts
  /\ idx' = 1
  /\ UNCHANGED <<records, studentMap, summaries, breakdown, done>>
  /\ UNCHANGED <<seriesVars, outside>>

CallAgainGetEngagementOverTime ==
  /\ pc = "idle"
  /\ "series" \in done
  /\ pc' = "series"
  /\ timeMap' = NewTimeMap
  /\ idx' = 1
  /\ UNCHANGED <<records, studentMap, summaries, counts, breakdown, done>>
  /\ UNCHANGED <<intervalSeconds, series, outside>>

NextAll ==
  \/ CallCalculateStudentSummaries
  \/ SummariesForEach
  \/ SummariesReturn
  \/ CallGetBehaviorBreakdown
  \/ BreakdownForEach
  \/ BreakdownReturn
  \/ CallGetEngagementOverTime
  \/ SeriesForEach
  \/ SeriesReturn
  \/ CallAgainCalculateStudentSummaries
  \/ CallAgainGetBehaviorBreakdown
  \/ CallAgainGetEngagementOverTime

SpecAll == InitAll /\ [][NextAll]_vars

(***************************************************************************)
(* loadActivityLog called once: the fetch settles, then the reading of the *)
(* body; what follows an await runs up to the next await or the return.    *)
(***************************************************************************)
InitLoader ==
  /\ source \in Sources
  /\ loadPc = "idle"
  /\ loaded = <<>>
  /\ logged = FALSE
  /\ PageNotMounted
  /\ ComponentsNotMounted
  /\ records = <<>>
  /\ intervalSeconds = DefaultIntervalSeconds
  /\ pc = "idle"
  /\ idx = 0
  /\ studentMap = <<>>
  /\ summaries = <<>>
  /\ counts = <<>>
  /\ breakdown = <<>>
  /\ done = {}
  /\ timeMap = <<>>
  /\ series = <<>>

reducerVars ==
  <<records, pc, idx, studentMap, summaries, counts, breakdown, done, seriesVars>>

Settle(outcome) ==
  LET end == TryCatch(outcome)
  IN  /\ loadPc' = end.pc
      /\ loaded' = end.value
      /\ logged' = end.logged

\* the call up to await fetch(...)
CallLoadActivityLog ==
  /\ loadPc = "idle"
  /\ loadPc' = "fetch"
  /\ UNCHANGED <<source, loaded, logged, reducerVars, pageVars, componentVars>>

\* the fetch promise settles
FetchSettles ==
  /\ loadPc = "fetch"
  /\ IF source.fetch = "fail"
       THEN Settle(Thrown)
       ELSE loadPc' = "text" /\ UNCHANGED <<loaded, logged>>
  /\ UNCHANGED <<source, reducerVars, pageVars, componentVars>>

\* the promise of response.text() settles; the parse runs to the return
TextSettles ==
  /\ loadPc = "text"
  /\ IF source.read = "fail"
       THEN Settle(Thrown)
       ELSE Settle(ParseText(source.text))
  /\ UNCHANGED <<source, reducerVars, pageVars, componentVars>>

NextLoader ==
  \/ CallLoadActivityLog
  \/ FetchSettles
  \/ TextSettles

SpecLoader == InitLoader /\ [][NextLoader]_vars

(***************************************************************************)
(* The Analysis page.  The reducers are called by the component and run to *)
(* their return within the step that calls them.                           *)
(***************************************************************************)
RECURSIVE SummariesOver(_, _, _)
SummariesOver(m, recs, i) ==
  IF i > Len(recs) THEN m
  ELSE SummariesOver(SummaryCallback(m, recs[i]), recs, i + 1)

CalculateStudentSummaries(recs) ==
  FinishSummaries(SummariesOver(NewStudentMap, recs, 1))

RECURSIVE CountsOver(_, _, _)
CountsOver(obj, recs, i) ==
  IF i > Len(recs) THEN obj
  ELSE CountsOver(BreakdownCallback(obj, recs[i]), recs, i + 1)

GetBehaviorBreakdown(recs) ==
  ObjectEntries(CountsOver(InitialCounts, recs, 1))

\* t.behavior === ... ? 'Attentive' : ... 'Talking' : ... 'Sleeping' : 'Phone'
BehaviorOf(behavior) ==
  IF behavior = ATTENTIVE THEN "Attentive"
  ELSE IF behavior = TALKING THEN "Talking"
  ELSE IF behavior = SLEEPING THEN "Sleeping"
  ELSE "Phone"

MapToStudentActivity(summary) ==
  [studentId |-> <<"S">> \o NumberToString(StudentIdBase + summary.studentId),
   name |-> <<"S", "t", "u", "d", "e", "n", "t", " ">>
              \o NumberToString(summary.studentId),
   totalMinutes |-> IF summary.totalMinutes = 0 THEN DefaultTotalMinutes
                    ELSE summary.totalMinutes,
   attentiveMinutes |-> summary.attentiveMinutes,
   inattentiveMinutes |-> summary.inattentiveMinutes,
   attentivePercentage |-> summary.engagementPct,
   timeline |->
     [j \in 1..(IF Len(summary.timeline) < TimelineLimit
                  THEN Len(summary.timeline) ELSE TimelineLimit) |->
        [time |-> NumberToString(GetHours(summary.timeline[j].time)) \o <<":">>
                    \o PadStart2(NumberToString(GetMinutes(summary.timeline[j].time))),
         behavior |-> BehaviorOf(summary.timeline[j].behavior),
         duration |-> 1]]]

\* the forEach callback of the engagementOverTimeData memo
EngagementCallback(m, record) ==
  LET intervalKey == IntervalKey(record.timestamp, PageIntervalSeconds)
      m1 == IF ~MapHas(m, intervalKey)
              THEN MapSet(m, intervalKey,
                          [Attentive |-> 0, Sleeping |-> 0, Talking |-> 0,
                           Phone |-> 0, total |-> 0])
              ELSE m
      interval == MapGet(m1, intervalKey)
      counted == [interval EXCEPT !.total = @ + 1]
  IN  MapSet(m1, intervalKey,
        IF record.activity = ATTENTIVE THEN [counted EXCEPT !.Attentive = @ + 1]
        ELSE IF record.activity = SLEEPING THEN [counted EXCEPT !.Sleeping = @ + 1]
        ELSE IF record.activity = TALKING THEN [counted EXCEPT !.Talking = @ + 1]
        ELSE IF Includes(record.activity, PHONE) THEN [counted EXCEPT !.Phone = @ + 1]
        ELSE counted)

RECURSIVE IntervalsOver(_, _, _)
IntervalsOver(m, recs, i) ==
  IF i > Len(recs) THEN m
  ELSE IntervalsOver(EngagementCallback(m, recs[i]), recs, i + 1)

EngagementPoint(entry) ==
  [time |-> entry.key,
   Attentive |-> MathRound(entry.value.Attentive * 100, entry.value.total),
   Sleeping |-> MathRound(entry.value.Sleeping * 100, entry.value.total),
   Talking |-> MathRound(entry.value.Talking * 100, entry.value.total),
   Phone |-> MathRound(entry.value.Phone * 100, entry.value.total)]

\* the engagementOverTimeData memo
EngagementOverTime(recs) ==
  IF Len(recs) = 0 THEN <<>>
  ELSE LET m == IntervalsOver(NewTimeMap, recs, 1)
       IN  SortSeries([j \in 1..Len(m) |-> EngagementPoint(m[j])])

\* the aggregations a render runs for its memos when `records` is new; the
\* engagement memo returns before aggregating when there is no record
MemosRun(recs) ==
  {[fn |-> "getBehaviorBreakdown", input |-> recs, resolved |-> loadPc = "resolved"]}
    \cup (IF Len(recs) = 0 THEN {}
          ELSE {[fn |-> "engagementOverTime", input |-> recs,
                 resolved |-> loadPc = "resolved"]})

\* only the records before the last one are stored
SetRecordsButLast(loadedRecords) ==
  SubSeq(loadedRecords, 1, Len(loadedRecords) - 1)

\* setRecords(loadedRecords)
SetRecords(loadedRecords) == loadedRecords

\* what the load promise may resolve to
PageLogs == AllLogs

InitAnalysis ==
  /\ records = <<>>
  /\ PageNotMounted
  /\ ComponentsNotMounted
  /\ LoaderNotCalled
  /\ intervalSeconds = DefaultIntervalSeconds
  /\ pc = "idle"
  /\ idx = 0
  /\ studentMap = <<>>
  /\ summaries = <<>>
  /\ counts = <<>>
  /\ breakdown = <<>>
  /\ done = {}
  /\ timeMap = <<>>
  /\ series = <<>>

stepVars ==
  <<pc, idx, studentMap, summaries, counts, breakdown, done, seriesVars>>

\* the first render: the memos are computed on the initial state and the
\* loading screen is returned
FirstRender ==
  /\ pagePc = "unmounted"
  /\ pagePc' = "rendered"
  /\ pieData' = GetBehaviorBreakdown(records)
  /\ engagementOverTimeData' = EngagementOverTime(records)
  /\ ran' = ran \cup MemosRun(records)
  /\ UNCHANGED <<records, students, loading, loaderVars, stepVars, componentVars>>

\* useEffect(() => { loadActivityLog().then(...) }, [])
RunEffect ==
  /\ pagePc = "rendered"
  /\ loadPc = "idle"
  /\ pagePc' = "waiting"
  /\ loadPc' = "fetch"
  /\ UNCHANGED <<records, students, loading, pieData, engagementOverTimeData,
                 ran, source, loaded, logged, stepVars, componentVars>>

\* the promise of loadActivityLog resolves
LoadActivityLogResolves ==
  /\ pagePc = "waiting"
  /\ loadPc = "fetch"
  /\ loadPc' = "resolved"
  /\ loaded' \in PageLogs
  /\ UNCHANGED <<records, pageVars, source, logged, stepVars, componentVars>>

\* summaries.map(mapToStudentActivity)
StudentActivities(sums) == [j \in 1..Len(sums) |-> MapToStudentActivity(sums[j])]

\* loadedRecords => { setRecords ... setLoading(false) }
Then(loadedRecords) ==
  /\ pagePc = "waiting"
  /\ loadPc = "resolved"
  /\ records' = SetRecords(loadedRecords)
  /\ students' = StudentActivities(CalculateStudentSummaries(loadedRecords))
  /\ loading' = FALSE
  /\ ran' = ran \cup {[fn |-> "calculateStudentSummaries", input |-> loadedRecords,
                        resolved |-> loadPc = "resolved"]}
  /\ pagePc' = "updated"
  /\ UNCHANGED <<pieData, engagementOverTimeData, loaderVars, stepVars, componentVars>>

\* the then handler
ThenHandler == Then(loaded)

\* the render after the state was set: the memos that depend on records
\* are computed again
Rerender ==
  /\ pagePc = "updated"
  /\ pagePc' = "shown"
  /\ pieData' = GetBehaviorBreakdown(records)
  /\ engagementOverTimeData' = EngagementOverTime(records)
  /\ ran' = ran \cup MemosRun(records)
  /\ UNCHANGED <<records, students, loading, loaderVars, stepVars, componentVars>>

NextAnalysis ==
  \/ FirstRender
  \/ RunEffect
  \/ LoadActivityLogResolves
  \/ ThenHandler
  \/ Rerender

SpecAnalysis == InitAnalysis /\ [][NextAnalysis]_vars

(***************************************************************************)
(* pages/Analysis.tsx: the same page with the engagement memo grouping by  *)
(* five minutes under the key H:MM.                                        *)
(***************************************************************************)
FiveMinuteKey(timestamp) ==
  NumberToString(GetHours(timestamp)) \o <<":">>
    \o PadStart2(NumberToString(
          (GetMinutes(timestamp) \div PageIntervalMinutes) * PageIntervalMinutes))

\* the forEach callback of the engagementOverTimeData memo
FiveMinuteCallback(m, record) ==
  LET intervalKey == FiveMinuteKey(record.timestamp)
      m1 == IF ~MapHas(m, intervalKey)
              THEN MapSet(m, intervalKey,
                          [Attentive |-> 0, Sleeping |-> 0, Talking |-> 0,
                           Phone |-> 0, total |-> 0])
              ELSE m
      interval == MapGet(m1, intervalKey)
      counted == [interval EXCEPT !.total = @ + 1]
  IN  MapSet(m1, intervalKey,
        IF record.activity = ATTENTIVE THEN [counted EXCEPT !.Attentive = @ + 1]
        ELSE IF record.activity = SLEEPING THEN [counted EXCEPT !.Sleeping = @ + 1]
        ELSE IF record.activity = TALKING THEN [counted EXCEPT !.Talking = @ + 1]
        ELSE IF Includes(record.activity, PHONE) THEN [counted EXCEPT !.Phone = @ + 1]
        ELSE counted)

RECURSIVE FiveMinutesOver(_, _, _)
FiveMinutesOver(m, recs, i) ==
  IF i > Len(recs) THEN m
  ELSE FiveMinutesOver(FiveMinuteCallback(m, recs[i]), recs, i + 1)

\* the engagementOverTimeData memo
FiveMinuteEngagement(recs) ==
  IF Len(recs) = 0 THEN <<>>
  ELSE LET m == FiveMinutesOver(NewTimeMap, recs, 1)
       IN  SortSeries([j \in 1..Len(m) |-> EngagementPoint(m[j])])

\* 08:05:00, 09:50:00, 09:55:00, 09:57:30, 10:00:00, 10:05:00, 23:55:00
FiveMinuteTimes ==
  {8 * 3600 + 5 * 60, 9 * 3600 + 50 * 60, 9 * 3600 + 55 * 60,
   9 * 3600 + 57 * 60 + 30, 10 * 3600, 10 * 3600 + 5 * 60, 23 * 3600 + 55 * 60}

FiveMinuteLogs ==
  UNION {{[k \in 1..n |->
             [timestamp |-> b[k].timestamp, studentId |-> 3,
              activity |-> b[k].activity, confidence |-> ConfidenceAt(k)]] :
            b \in [1..n -> [timestamp : FiveMinuteTimes,
                            activity : {ATTENTIVE, SLEEPING}]]} :
         n \in 0..MaxPageLen}

FirstRenderFiveMinute ==
  /\ pagePc = "unmounted"
  /\ pagePc' = "rendered"
  /\ pieData' = GetBehaviorBreakdown(records)
  /\ engagementOverTimeData' = FiveMinuteEngagement(records)
  /\ ran' = ran \cup MemosRun(records)
  /\ UNCHANGED <<records, students, loading, loaderVars, stepVars, componentVars>>

LoadFiveMinuteResolves ==
  /\ pagePc = "waiting"
  /\ loadPc = "fetch"
  /\ loadPc' = "resolved"
  /\ loaded' \in FiveMinuteLogs
  /\ UNCHANGED <<records, pageVars, source, logged, stepVars, componentVars>>

RerenderFiveMinute ==
  /\ pagePc = "updated"
  /\ pagePc' = "shown"
  /\ pieData' = GetBehaviorBreakdown(records)
  /\ engagementOverTimeData' = FiveMinuteEngagement(records)
  /\ ran' = ran \cup MemosRun(records)
  /\ UNCHANGED <<records, students, loading, loaderVars, stepVars, componentVars>>

NextFiveMinute ==
  \/ FirstRenderFiveMinute
  \/ RunEffect
  \/ LoadFiveMinuteResolves
  \/ ThenHandler
  \/ RerenderFiveMinute

SpecFiveMinute == InitAnalysis /\ [][NextFiveMinute]_vars

(***************************************************************************)
(* CameraFeed.  A media stream is named by the call of getUserMedia that   *)
(* gave it.  A click is handled, and the render it causes is committed,    *)
(* before the next event; the effect of [isActive] runs after the commit   *)
(* that changed isActive, and the video element loads in between or later. *)
(***************************************************************************)
\* no reducer is running
ReducersNotCalled ==
  /\ records = <<>>
  /\ intervalSeconds = DefaultIntervalSeconds
  /\ pc = "idle"
  /\ idx = 0
  /\ studentMap = <<>>
  /\ summaries = <<>>
  /\ counts = <<>>
  /\ breakdown = <<>>
  /\ done = {}
  /\ timeMap = <<>>
  /\ series = <<>>

notCamera == <<records, stepVars, loaderVars, pageVars, dashboardVars,
               attendanceVars>>

\* Math.floor(Math.random() * 3) + 2
MockFaces == {2, 3, 4}

\* a button that can always be clicked
ButtonNeverDisabled == FALSE

\* disabled={isLoading}
ButtonDisabled == isLoading

\* the stream is not stored
SetStreamNull(mediaStream) == 0

\* setStream(mediaStream)
SetStream(mediaStream) == mediaStream

\* the CameraFeed after its first render and effects
InitCamera ==
  /\ camMounted = TRUE
  /\ isActive = FALSE
  /\ isLoading = FALSE
  /\ detectedFaces = 0
  /\ stream = 0
  /\ started = 0
  /\ inFlight = {}
  /\ live = {}
  /\ srcObject = 0
  /\ readyState = 0
  /\ effectDue = FALSE
  /\ detectInterval = FALSE
  /\ ReducersNotCalled
  /\ PageNotMounted
  /\ LoaderNotCalled
  /\ DashboardNotMounted
  /\ AttendanceNotMounted

\* a click on Start Camera: startCamera up to its await
ClickStart ==
  /\ camMounted
  /\ ~ButtonDisabled
  /\ ~isActive
  /\ started < MaxStarts
  /\ isLoading' = TRUE
  /\ started' = started + 1
  /\ inFlight' = inFlight \cup {started + 1}
  /\ UNCHANGED <<camMounted, isActive, detectedFaces, stream, live, srcObject,
                 readyState, effectDue, detectInterval, notCamera>>

\* getUserMedia resolves: startCamera from the await to its end
GetUserMediaResolves ==
  \E call \in inFlight :
    /\ inFlight' = inFlight \ {call}
    /\ live' = live \cup {call}
    /\ IF camMounted
         THEN /\ srcObject' = call
              /\ readyState' = 0
              /\ stream' = SetStream(call)
              /\ isActive' = TRUE
              /\ effectDue' = (effectDue \/ ~isActive)
              /\ isLoading' = FALSE
         ELSE UNCHANGED <<srcObject, readyState, stream, isActive, effectDue,
                          isLoading>>
    /\ UNCHANGED <<camMounted, detectedFaces, started, detectInterval, notCamera>>

\* getUserMedia rejects: the catch and the finally
GetUserMediaRejects ==
  \E call \in inFlight :
    /\ inFlight' = inFlight \ {call}
    /\ isLoading' = IF camMounted THEN FALSE ELSE isLoading
    /\ UNCHANGED <<camMounted, isActive, detectedFaces, stream, started, live,
                   srcObject, readyState, effectDue, detectInterval, notCamera>>

\* a click on Stop Camera: stopCamera
ClickStop ==
  /\ camMounted
  /\ ~ButtonDisabled
  /\ isActive
  /\ IF stream # 0
       THEN /\ live' = live \ {stream}
            /\ stream' = 0
            /\ isActive' = FALSE
            /\ detectedFaces' = 0
            /\ effectDue' = TRUE
       ELSE UNCHANGED <<live, stream, isActive, detectedFaces, effectDue>>
  /\ UNCHANGED <<camMounted, isLoading, started, inFlight, srcObject,
                 readyState, detectInterval, notCamera>>

\* the effect of [isActive]: the cleanup of its last run, then the run
ActiveEffect ==
  /\ camMounted
  /\ effectDue
  /\ effectDue' = FALSE
  /\ detectInterval' = (isActive /\ readyState = HAVE_ENOUGH_DATA)
  /\ UNCHANGED <<camMounted, isActive, isLoading, detectedFaces, stream,
                 started, inFlight, live, srcObject, readyState, notCamera>>

\* the video element gets data of its stream
VideoLoads ==
  /\ camMounted
  /\ srcObject \in live
  /\ readyState < HAVE_ENOUGH_DATA
  /\ readyState' \in (readyState + 1)..HAVE_ENOUGH_DATA
  /\ UNCHANGED <<camMounted, isActive, isLoading, detectedFaces, stream,
                 started, inFlight, live, srcObject, effectDue, detectInterval,
                 notCamera>>

\* a tick of the interval: detectFaces
DetectFaces ==
  /\ camMounted
  /\ detectInterval
  /\ detectedFaces' \in MockFaces
  /\ UNCHANGED <<camMounted, isActive, isLoading, stream, started, inFlight,
                 live, srcObject, readyState, effectDue, detectInterval,
                 notCamera>>

\* the component unmounts: the cleanups of both effects run
Unmount ==
  /\ camMounted
  /\ camMounted' = FALSE
  /\ detectInterval' = FALSE
  /\ effectDue' = FALSE
  /\ live' = live \ {stream}
  /\ UNCHANGED <<isActive, isLoading, detectedFaces, stream, started, inFlight,
                 srcObject, readyState, notCamera>>

NextCamera ==
  \/ ClickStart
  \/ GetUserMediaResolves
  \/ GetUserMediaRejects
  \/ ClickStop
  \/ ActiveEffect
  \/ VideoLoads
  \/ DetectFaces
  \/ Unmount

SpecCamera == InitCamera /\ [][NextCamera]_vars

\* an effect that is due runs, a running interval ticks, and the video
\* element of a live stream gets its data; clicks, unmounting and the
\* answer of getUserMedia may or may not come
FairSpecCamera ==
  /\ SpecCamera
  /\ WF_vars(ActiveEffect)
  /\ WF_vars(VideoLoads)
  /\ WF_vars(DetectFaces)

(***************************************************************************)
(* The Analysis page over loadActivityLog itself: the effect calls the     *)
(* loader, whose fetch and reading of the body settle as the source says.  *)
(* The loader's records hold strings as characters; the reducers are given *)
(* the same records with the activity as a label and the timestamp as the  *)
(* instant that new Date(timestamp) denotes.                               *)
(***************************************************************************)
\* the instant denoted by a timestamp HH:MM:SS
DateOf(str) ==
  3600 * DigitsValue(SubSeq(str, 1, 2)) + 60 * DigitsValue(SubSeq(str, 4, 5))
    + DigitsValue(SubSeq(str, 7, 8))

LabelOf(str) == CHOOSE label \in ActivityLabels : CharsOf(label) = str

AsActivityRecords(loadedRecords) ==
  [k \in 1..Len(loadedRecords) |->
     [timestamp |-> DateOf(loadedRecords[k].timestamp),
      studentId |-> loadedRecords[k].studentId.n,
      activity |-> LabelOf(loadedRecords[k].activity),
      confidence |-> loadedRecords[k].confidence]]

\* the texts the page is loaded from: no text, a header alone, or a header
\* and one data line of one to five fields, without blanks around them
PageSources ==
  {s \in Sources : /\ s.doc.rows \in {<<>>} \cup [{1} -> Rows]
                    /\ ~s.doc.pad
                    /\ ~s.doc.newline}

InitPage ==
  /\ source \in PageSources
  /\ loadPc = "idle"
  /\ loaded = <<>>
  /\ logged = FALSE
  /\ records = <<>>
  /\ PageNotMounted
  /\ ComponentsNotMounted
  /\ intervalSeconds = DefaultIntervalSeconds
  /\ pc = "idle"
  /\ idx = 0
  /\ studentMap = <<>>
  /\ summaries = <<>>
  /\ counts = <<>>
  /\ breakdown = <<>>
  /\ done = {}
  /\ timeMap = <<>>
  /\ series = <<>>

\* the then handler, given what loadActivityLog resolved to
ThenHandlerLoaded == Then(AsActivityRecords(loaded))

NextPage ==
  \/ FirstRender
  \/ RunEffect
  \/ FetchSettles
  \/ TextSettles
  \/ ThenHandlerLoaded
  \/ Rerender

SpecPage == InitPage /\ [][NextPage]_vars

\* a job queued for a resolved promise is run, and so is a render that
\* React has scheduled; whether the network answers is left open
FairSpecPage ==
  /\ SpecPage
  /\ WF_vars(FirstRender)
  /\ WF_vars(RunEffect)
  /\ WF_vars(ThenHandlerLoaded)
  /\ WF_vars(Rerender)

(***************************************************************************)
(* ClassroomDashboard.  Math.random() is read from a tape of draws, each   *)
(* a number of 1 / RandomScale; a call that draws reads the tape from its  *)
(* start, again and again.  A time label is kept as its characters.        *)
(***************************************************************************)
\* generateMockSessionData: const totalStudents = 25
TotalStudents == 25
\* useState(() => generateMockSessionData(60, 30))
DurationMinutes == 60
IntervalSec == 30
\* if (next.length > 120) next.shift()
SessionLimit == 120
\* the period of the interval, in seconds
TickSeconds == 3

BEHAVIORS == <<"Attentive", "Sleeping", "Talking", "Phone">>

Randoms == {0, RandomScale \div 2, RandomScale - 1}

Tapes == Randoms \X Randoms

\* the k-th Math.random() of a call
Draw(tape, k) == tape[((k - 1) % Len(tape)) + 1]

Max(a, b) == IF a >= b THEN a ELSE b

Min(a, b) == IF a <= b THEN a ELSE b

\* Math.ceil(num / den) for num >= 0, den > 0
MathCeil(num, den) == (num + den - 1) \div den

\* Math.round((Math.random() - 0.5) * width)
Jitter(r, width) == MathRound(width * (2 * r - RandomScale), 2 * RandomScale)

\* 3 * Math.sin(i / 8) for i = 0, 1, ... in thousandths
ThreeSine ==
  <<
    0, 374, 742, 1099, 1438, 1755, 2045, 2303, 2524, 2707,
    2847, 2943, 2992, 2996, 2952, 2862, 2728, 2551, 2334, 2081,
    1795, 1482, 1145, 790, 423, 50, -325, -694, -1052, -1394,
    -1715, -2008, -2270, -2497, -2685, -2831, -2933, -2989, -2998, -2960,
    -2877, -2748, -2577, -2365, -2117, -1835, -1525, -1191, -838, -473,
    -100, 275, 645, 1006, 1350, 1674, 1971, 2238, 2469, 2662,
    2814, 2922, 2984, 2999, 2968, 2890, 2768, 2602, 2395, 2152,
    1874, 1567, 1236, 886, 522, 149, -225, -597, -959, -1305,
    -1632, -1933, -2204, -2441, -2639, -2796, -2910, -2978, -3000, -2975,
    -2903, -2787, -2626, -2425, -2186, -1913, -1610, -1282, -933, -571,
    -199, 176, 548, 911, 1261, 1590, 1895, 2170, 2411, 2615,
    2778, 2897, 2972, 3000, 2981, 2916, 2805, 2650, 2454, 2220
  >>

\* Math.round(3 * Math.sin(i / 8) + (Math.random() - 0.5) * 2)
Drift(i, r) ==
  MathRound(ThreeSine[i + 1] * RandomScale + 1000 * (2 * r - RandomScale),
            1000 * RandomScale)

\* Math.max(0, Math.round(rest * Math.random() * tenths / 10))
Share(rest, r, tenths) == Max(0, MathRound(rest * r * tenths, 10 * RandomScale))

\* talking that forgets the phones
TalkingButPhone(total, attentive, sleeping, phone) ==
  Max(0, total - attentive - sleeping)

\* Math.max(0, total - attentive - sleeping - phone)
Talking(total, attentive, sleeping, phone) ==
  Max(0, total - attentive - sleeping - phone)

\* the point pushed for `attentive` of `total`, the sleeping and the phone
\* share drawn as r1 and r2 and weighted by so many tenths
SessionPoint(time, total, attentive, r1, tenths1, r2, tenths2) ==
  LET sleeping == Share(total - attentive, r1, tenths1)
      phone == Share(total - attentive - sleeping, r2, tenths2)
      talking == Talking(total, attentive, sleeping, phone)
  IN  [time |-> time,
       Attentive |-> attentive,
       Sleeping |-> sleeping,
       Phone |-> phone,
       Talking |-> talking,
       total |-> total,
       attentivePct |-> MathRound(attentive * 100, total)]

generateMockSessionData(durationMinutes, intervalSec, tape) ==
  LET totalStudents == TotalStudents
      steps == MathCeil(durationMinutes * 60, intervalSec)
      baseAttentive == MathRound(totalStudents * 75, 100)
      Point(i) ==
        LET drift == Drift(i, Draw(tape, 4 * i + 1))
            attentive ==
              Max(0, Min(totalStudents,
                         baseAttentive + drift + Jitter(Draw(tape, 4 * i + 2), 3)))
        IN  SessionPoint(NumberToString((i * intervalSec) \div 60) \o <<":">>
                           \o PadStart2(NumberToString((i * intervalSec) % 60)),
                         totalStudents, attentive,
                         Draw(tape, 4 * i + 3), 5, Draw(tape, 4 * i + 4), 7)
  IN  [points |-> [k \in 1..steps |-> Point(k - 1)],
       totalStudents |-> totalStudents]

\* BEHAVIORS[Math.floor(Math.random() * BEHAVIORS.length)]
RandomBehavior(r) == BEHAVIORS[((r * Len(BEHAVIORS)) \div RandomScale) + 1]

\* detectedTime, a clock reading to the second, is kept as the whole seconds
\* it lies before now
generateMockAttendanceLog(totalStudents, tape) ==
  [k \in 1..totalStudents |->
     [studentId |-> <<"S">> \o NumberToString(StudentIdBase + (k - 1)),
      detectedTime |-> (Draw(tape, 2 * k - 1) * 60 * 60) \div RandomScale,
      status |-> RandomBehavior(Draw(tape, 2 * k))]]

\* the snapshot of a point
SnapshotOf(point) ==
  [totalDetected |-> point.total,
   engagementPct |-> point.attentivePct,
   breakdown |-> [Attentive |-> point.Attentive, Sleeping |-> point.Sleeping,
                  Talking |-> point.Talking, Phone |-> point.Phone]]

\* log.map(r => Math.random() > 0.995 ? {...r, status: ...} : r), the draws
\* read from the k-th on
RECURSIVE MapLog(_, _, _)
MapLog(log, tape, k) ==
  IF log = <<>> THEN <<>>
  ELSE IF Draw(tape, k) * 1000 > 995 * RandomScale
         THEN <<[Head(log) EXCEPT !.status = RandomBehavior(Draw(tape, k + 1))]>>
                \o MapLog(Tail(log), tape, k + 2)
         ELSE <<Head(log)>> \o MapLog(Tail(log), tape, k + 1)

\* if (next.length > 120) next.shift()
ShiftOverLimit(next) == IF Len(next) > SessionLimit THEN Tail(next) ELSE next

\* the component mounts: the three lazy useState initialisers
InitDashboard ==
  /\ \E tape \in Tapes :
       LET session == generateMockSessionData(DurationMinutes, IntervalSec, tape)
           last == session.points[Len(session.points)]
       IN  /\ sessionPoints = session.points
           /\ attendanceLog = generateMockAttendanceLog(session.totalStudents, tape)
           /\ snapshot = SnapshotOf(last)
  /\ ticks = 0
  /\ CameraNotMounted
  /\ AttendanceNotMounted
  /\ ReducersNotCalled
  /\ PageNotMounted
  /\ LoaderNotCalled

\* a tick of the 3-second interval: the updater given to setSessionPoints
Tick ==
  /\ ticks < MaxTicks
  /\ \E tape \in Tapes :
       LET last == sessionPoints[Len(sessionPoints)]
           total == last.total
           attentive == Max(0, Min(total, last.Attentive + Jitter(Draw(tape, 1), 2)))
           newPoint ==
             SessionPoint(<<"n", "o", "w", "+">>
                            \o NumberToString(TickSeconds * (ticks + 1)),
                          total, attentive, Draw(tape, 2), 4, Draw(tape, 3), 6)
       IN  /\ sessionPoints' = ShiftOverLimit(Append(sessionPoints, newPoint))
           /\ snapshot' = SnapshotOf(newPoint)
           /\ attendanceLog' = MapLog(attendanceLog, tape, 4)
  /\ ticks' = ticks + 1
  /\ UNCHANGED <<records, stepVars, loaderVars, pageVars, cameraVars,
                 attendanceVars>>

NextDashboard ==
  \/ Tick

SpecDashboard == InitDashboard /\ [][NextDashboard]_vars

(***************************************************************************)
(* pages/Attendance.tsx, the roster marked from the camera.  The page      *)
(* mounts a CameraFeed and gives it handleFacesDetected and                 *)
(* setDetectedCount; its own effect runs after the first render and before *)
(* any later event.  detectedAt, a clock reading, is kept as the number of *)
(* the marking, 0 for undefined.                                           *)
(***************************************************************************)
\* const [totalStudents] = useState(25)
RosterTotalStudents == 25

\* the roster built by the effect of [totalStudents]
InitialStudents(totalStudents) ==
  [k \in 1..totalStudents |->
     [id |-> <<"S">> \o NumberToString(StudentIdBase + (k - 1)),
      name |-> <<"S", "t", "u", "d", "e", "n", "t", " ">> \o NumberToString(k),
      status |-> "absent",
      detectedAt |-> 0]]

\* students.filter((s) => s.status === status).length
StatusCount(studentList, status) ==
  Cardinality({k \in 1..Len(studentList) : studentList[k].status = status})

\* the positions of updated.filter((s) => s.status === "absent"), in order
RECURSIVE AbsentFrom(_, _)
AbsentFrom(studentList, k) ==
  IF k > Len(studentList) THEN <<>>
  ELSE IF studentList[k].status = "absent"
         THEN <<k>> \o AbsentFrom(studentList, k + 1)
         ELSE AbsentFrom(studentList, k + 1)

\* the updater of handleFacesDetected, its two draws being r1 and r2
HandleFacesDetected(prev, r1, r2) ==
  LET absent == AbsentFrom(prev, 1)
  IN  IF Len(absent) > 0 /\ r1 * 10 > 7 * RandomScale
        THEN LET randomStudent == absent[((r2 * Len(absent)) \div RandomScale) + 1]
             IN  [prev EXCEPT
                    ![randomStudent].status = "present",
                    ![randomStudent].detectedAt = StatusCount(prev, "present") + 1]
        ELSE prev

\* the page mounts with its CameraFeed
InitAttendance ==
  /\ roster = <<>>
  /\ rosterDue = TRUE
  /\ detectedCount = 0
  /\ camMounted = TRUE
  /\ isActive = FALSE
  /\ isLoading = FALSE
  /\ detectedFaces = 0
  /\ stream = 0
  /\ started = 0
  /\ inFlight = {}
  /\ live = {}
  /\ srcObject = 0
  /\ readyState = 0
  /\ effectDue = FALSE
  /\ detectInterval = FALSE
  /\ DashboardNotMounted
  /\ ReducersNotCalled
  /\ PageNotMounted
  /\ LoaderNotCalled

\* the effect of [totalStudents]
RosterEffect ==
  /\ camMounted
  /\ rosterDue
  /\ rosterDue' = FALSE
  /\ roster' = InitialStudents(RosterTotalStudents)
  /\ UNCHANGED <<detectedCount, records, stepVars, loaderVars, pageVars,
                 cameraVars, dashboardVars>>

\* a tick of the camera's interval: detectFaces, which calls
\* handleFacesDetected and setDetectedCount
DetectFacesOnPage ==
  /\ camMounted
  /\ detectInterval
  /\ \E numFaces \in MockFaces, r1 \in Randoms, r2 \in Randoms :
       /\ detectedFaces' = numFaces
       /\ detectedCount' = numFaces
       /\ roster' = HandleFacesDetected(roster, r1, r2)
  /\ StatusCount(roster', "present") <= MaxMarks
  /\ UNCHANGED <<camMounted, isActive, isLoading, stream, started, inFlight,
                 live, srcObject, readyState, effectDue, detectInterval,
                 rosterDue, records, stepVars, loaderVars, pageVars,
                 dashboardVars>>

NextAttendance ==
  \/ RosterEffect
  \/ /\ ~rosterDue
     /\ \/ ClickStart
        \/ GetUserMediaResolves
        \/ GetUserMediaRejects
        \/ ClickStop
        \/ ActiveEffect
        \/ VideoLoads
        \/ DetectFacesOnPage
        \/ Unmount

SpecAttendance == InitAttendance /\ [][NextAttendance]_vars

(***************************************************************************)
(* What the claims are stated in: the input log read directly.             *)
(***************************************************************************)
SummariesReturned == "summaries" \in done

BreakdownReturned == "breakdown" \in done

InputStudentIds == {records[k].studentId : k \in 1..Len(records)}

RecordsOfStudent(id) == SelectSeq(records, LAMBDA r : r.studentId = id)

FirstAppearance(id) ==
  CHOOSE k \in 1..Len(records) :
    /\ records[k].studentId = id
    /\ \A k2 \in 1..(k - 1) : records[k2].studentId # id

PhoneContaining == {"Phone", "Using Phone"}

IsAny(r) == TRUE
IsAttentive(r) == r.activity = "Studying/Attentive"
IsInattentive(r) == r.activity # "Studying/Attentive"
IsSleeping(r) == r.activity = "Sleeping"
IsTalking(r) == r.activity = "Talking in Class"
IsPhone(r) == r.activity \in PhoneContaining
IsRecognized(r) == IsAttentive(r) \/ IsSleeping(r) \/ IsTalking(r) \/ IsPhone(r)

FramesOf(id, Category(_)) ==
  Cardinality({k \in 1..Len(records) :
                 records[k].studentId = id /\ Category(records[k])})

\* p is q rounded to the nearest integer, halves up, for q = num / den
IsRounded(p, num, den) ==
  /\ 2 * p * den - den <= 2 * num
  /\ 2 * num < 2 * p * den + den

(***************************************************************************)
(* C1: calculateStudentSummaries returns exactly one summary per distinct  *)
(* studentId of the input: the studentIds of the output are those of the   *)
(* input, and no studentId appears in two summaries.                       *)
(***************************************************************************)
C1_OneSummaryPerStudent ==
  SummariesReturned =>
    /\ {summaries[j].studentId : j \in 1..Len(summaries)} = InputStudentIds
    /\ \A j1, j2 \in 1..Len(summaries) :
         summaries[j1].studentId = summaries[j2].studentId => j1 = j2

C1_Witness ==
  /\ SummariesReturned
  /\ Len(summaries) = 2
  /\ Len(records) > 2

(***************************************************************************)
(* C2: the summaries are ordered by engagementPct descending, and two      *)
(* summaries of equal engagementPct stand in the order in which their      *)
(* studentIds first appear in the input.                                   *)
(***************************************************************************)
C2_SortedStable ==
  SummariesReturned =>
    \A j1, j2 \in 1..Len(summaries) :
      j1 < j2 =>
        /\ summaries[j1].engagementPct >= summaries[j2].engagementPct
        /\ summaries[j1].engagementPct = summaries[j2].engagementPct =>
             FirstAppearance(summaries[j1].studentId)
               < FirstAppearance(summaries[j2].studentId)

\* three students: the sort moves the second one to the front, and the tie
\* behind it keeps an input order that is not the order of the ids
C2_Witness ==
  /\ SummariesReturned
  /\ Len(summaries) = 3
  /\ summaries[1].engagementPct > summaries[2].engagementPct
  /\ summaries[2].engagementPct = summaries[3].engagementPct
  /\ summaries[2].studentId > summaries[3].studentId
  /\ FirstAppearance(summaries[2].studentId)
       < FirstAppearance(summaries[1].studentId)
  /\ FirstAppearance(summaries[1].studentId)
       < FirstAppearance(summaries[3].studentId)

(***************************************************************************)
(* C3: engagementPct of every summary is round(attentiveFrames /           *)
(* totalFrames * 100) over that student's record counts, not over the      *)
(* rounded minute values.                                                  *)
(***************************************************************************)
C3_EngagementFromFrames ==
  SummariesReturned =>
    \A j \in 1..Len(summaries) :
      LET id == summaries[j].studentId
      IN  IsRounded(summaries[j].engagementPct,
                    100 * FramesOf(id, IsAttentive), FramesOf(id, IsAny))

\* a summary whose minute values would give another percentage
C3_Witness ==
  /\ SummariesReturned
  /\ \E j \in 1..Len(summaries) :
       /\ summaries[j].totalMinutes > 0
       /\ ~IsRounded(summaries[j].engagementPct,
                     100 * summaries[j].attentiveMinutes,
                     summaries[j].totalMinutes)
       /\ summaries[j].engagementPct \notin {0, 100}

(***************************************************************************)
(* C4: each of totalMinutes, attentiveMinutes, inattentiveMinutes,         *)
(* sleepingMinutes, talkingMinutes and phoneMinutes of a summary is        *)
(* round(c / 30), c being the number of that student's records in the      *)
(* category.                                                               *)
(***************************************************************************)
C4_MinutesRounded ==
  SummariesReturned =>
    \A j \in 1..Len(summaries) :
      LET s == summaries[j]
          id == s.studentId
      IN  /\ IsRounded(s.totalMinutes, FramesOf(id, IsAny), 30)
          /\ IsRounded(s.attentiveMinutes, FramesOf(id, IsAttentive), 30)
          /\ IsRounded(s.inattentiveMinutes, FramesOf(id, IsInattentive), 30)
          /\ IsRounded(s.sleepingMinutes, FramesOf(id, IsSleeping), 30)
          /\ IsRounded(s.talkingMinutes, FramesOf(id, IsTalking), 30)
          /\ IsRounded(s.phoneMinutes, FramesOf(id, IsPhone), 30)

\* less than a minute of frames rounded up to one minute
C4_Witness ==
  /\ SummariesReturned
  /\ \E j \in 1..Len(summaries) :
       /\ summaries[j].phoneMinutes = 1
       /\ FramesOf(summaries[j].studentId, IsPhone) < 30
       /\ summaries[j].sleepingMinutes = 1
       /\ summaries[j].totalMinutes = 1
       /\ summaries[j].attentiveMinutes = 0

(***************************************************************************)
(* C5: 0 <= engagementPct <= 100 in every summary.                         *)
(***************************************************************************)
C5_PercentageBound ==
  SummariesReturned =>
    \A j \in 1..Len(summaries) :
      /\ 0 <= summaries[j].engagementPct
      /\ summaries[j].engagementPct <= 100

C5_Witness ==
  /\ SummariesReturned
  /\ Len(summaries) = 2
  /\ summaries[1].engagementPct = 100
  /\ summaries[2].engagementPct = 0

(***************************************************************************)
(* C6: a record that is not 'Studying/Attentive' increments its student's  *)
(* inattentive count exactly once and at most one of the sleeping,         *)
(* talking and phone counts (Sleeping, then Talking in Class, then a label *)
(* containing 'Phone'); an attentive record increments only the attentive  *)
(* count.  No record increments two category counters.                     *)
(***************************************************************************)
StudentBefore(m, id) == IF MapHas(m, id) THEN MapGet(m, id) ELSE NewStudent(id)

C6_CategoryExclusive ==
  [][(pc = "summarize" /\ idx' = idx + 1) =>
      LET r == records[idx]
          b == StudentBefore(studentMap, r.studentId)
          a == MapGet(studentMap', r.studentId)
          d(f) == a[f] - b[f]
          One(c) == IF c THEN 1 ELSE 0
      IN  /\ d("totalMinutes") = 1
          /\ d("attentiveMinutes") = One(IsAttentive(r))
          /\ d("inattentiveMinutes") = One(~IsAttentive(r))
          /\ d("sleepingMinutes") = One(IsSleeping(r))
          /\ d("talkingMinutes") = One(IsTalking(r))
          /\ d("phoneMinutes") = One(IsPhone(r))
          /\ d("attentiveMinutes") + d("sleepingMinutes")
               + d("talkingMinutes") + d("phoneMinutes") <= 1
          /\ \A id \in StudentIds \ {r.studentId} :
               StudentBefore(studentMap', id) = StudentBefore(studentMap, id)
    ]_vars

\* an uncategorised record and then a phone record of one student counted
C6_Witness ==
  /\ pc = "summarize"
  /\ idx = 3
  /\ records[1].studentId = records[2].studentId
  /\ records[1].activity = "Eating"
  /\ records[2].activity = "Using Phone"
  /\ LET s == MapGet(studentMap, records[2].studentId)
     IN  /\ s.inattentiveMinutes = 2
         /\ s.phoneMinutes = 1
         /\ s.sleepingMinutes = 0
         /\ s.talkingMinutes = 0
         /\ s.attentiveMinutes = 0

(***************************************************************************)
(* C7: the timeline of every summary is the subsequence of the input       *)
(* records of that studentId, in input order, each entry carrying the      *)
(* record's timestamp, activity and confidence; the timeline lengths sum   *)
(* to the number of input records.                                         *)
(***************************************************************************)
TimelineOfStudent(id) ==
  LET rs == RecordsOfStudent(id)
  IN  [k \in 1..Len(rs) |->
         [time |-> rs[k].timestamp, behavior |-> rs[k].activity,
          confidence |-> rs[k].confidence]]

RECURSIVE TimelineLengths(_, _)
TimelineLengths(arr, j) ==
  IF j > Len(arr) THEN 0
  ELSE Len(arr[j].timeline) + TimelineLengths(arr, j + 1)

C7_TimelinePartition ==
  SummariesReturned =>
    /\ \A j \in 1..Len(summaries) :
         summaries[j].timeline = TimelineOfStudent(summaries[j].studentId)
    /\ TimelineLengths(summaries, 1) = Len(records)

\* two students whose records alternate
C7_Witness ==
  /\ SummariesReturned
  /\ Len(summaries) = 2
  /\ Len(records) >= 3
  /\ records[1].studentId # records[2].studentId
  /\ records[3].studentId = records[1].studentId
  /\ records[3].activity # records[1].activity

(***************************************************************************)
(* C8: whatever the activity labels, getBehaviorBreakdown returns exactly  *)
(* four (name, value) entries, in the order Studying/Attentive, Talking in *)
(* Class, Sleeping, Phone, each value a non-negative integer.              *)
(***************************************************************************)
C8_FourBuckets ==
  BreakdownReturned =>
    /\ Len(breakdown) = 4
    /\ [j \in 1..Len(breakdown) |-> breakdown[j].name]
         = <<"Studying/Attentive", "Talking in Class", "Sleeping", "Phone">>
    /\ \A j \in 1..Len(breakdown) :
         ~breakdown[j].value.nan /\ breakdown[j].value.n >= 0

(***************************************************************************)
(* C9: the values returned by getBehaviorBreakdown sum to at most the      *)
(* number of records, and to exactly that number if and only if every      *)
(* record's activity is one of the three exact labels or contains 'Phone'. *)
(***************************************************************************)
\* a + b
Plus(a, b) == IF a.nan \/ b.nan THEN NaN ELSE Num(a.n + b.n)

RECURSIVE SumOfValues(_, _)
SumOfValues(arr, j) ==
  IF j > Len(arr) THEN Num(0)
  ELSE Plus(arr[j].value, SumOfValues(arr, j + 1))

C9_BreakdownConservation ==
  BreakdownReturned =>
    LET total == SumOfValues(breakdown, 1)
    IN  /\ ~total.nan
        /\ total.n <= Len(records)
        /\ total.n = Len(records)
             <=> \A k \in 1..Len(records) : IsRecognized(records[k])

(***************************************************************************)
(* C10: a record whose activity is none of the three exact labels and does *)
(* not contain 'Phone' is counted in its student's inattentive and total   *)
(* counts by calculateStudentSummaries, and in none of sleeping, talking   *)
(* and phone, while getBehaviorBreakdown adds it to no bucket.             *)
(***************************************************************************)
C10_UncategorizedRecord ==
  [][(pc # "idle" /\ idx' = idx + 1 /\ ~IsRecognized(records[idx])) =>
      /\ pc = "summarize" =>
           LET r == records[idx]
               b == StudentBefore(studentMap, r.studentId)
               a == MapGet(studentMap', r.studentId)
           IN  /\ a.totalMinutes = b.totalMinutes + 1
               /\ a.inattentiveMinutes = b.inattentiveMinutes + 1
               /\ a.sleepingMinutes = b.sleepingMinutes
               /\ a.talkingMinutes = b.talkingMinutes
               /\ a.phoneMinutes = b.phoneMinutes
      /\ pc = "breakdown" => counts' = counts
    ]_vars

(***************************************************************************)
(* What the claims about getEngagementOverTime are stated in.              *)
(***************************************************************************)
SeriesReturned == "series" \in done

TwoDigits(n) == <<DigitChars[(n \div 10) + 1], DigitChars[(n % 10) + 1]>>

\* HH:MM:SS of the instant t, SS floored to a multiple of the interval
BucketKeyOf(t, interval) ==
  LET secondOfDay == t % (24 * 3600)
      hh == secondOfDay \div 3600
      mm == (secondOfDay % 3600) \div 60
      ss == secondOfDay % 60
  IN  TwoDigits(hh) \o <<":">> \o TwoDigits(mm) \o <<":">>
        \o TwoDigits(ss - (ss % interval))

RecordsOfBucket(key) ==
  {k \in 1..Len(records) :
     BucketKeyOf(records[k].timestamp, intervalSeconds) = key}

CodePoint(c) == IF c = ":" THEN 58 ELSE 47 + CHOOSE d \in 1..10 : DigitChars[d] = c

\* a is before b in the lexicographic order of strings
LexLess(a, b) ==
  \/ Len(a) < Len(b) /\ SubSeq(b, 1, Len(a)) = a
  \/ \E i \in 1..Len(a) :
       /\ i <= Len(b)
       /\ SubSeq(a, 1, i - 1) = SubSeq(b, 1, i - 1)
       /\ CodePoint(a[i]) < CodePoint(b[i])

RECURSIVE BucketTotals(_, _)
BucketTotals(m, j) ==
  IF j > Len(m) THEN 0 ELSE m[j].value.total + BucketTotals(m, j + 1)

SameDay == \A k1, k2 \in 1..Len(records) :
  records[k1].timestamp \div (24 * 3600) = records[k2].timestamp \div (24 * 3600)

(***************************************************************************)
(* C12: getEngagementOverTime assigns each record to exactly one bucket,   *)
(* whose key is HH:MM:SS with SS = floor(seconds / intervalSeconds) *      *)
(* intervalSeconds, each part padded to two digits; AttentivePct of each   *)
(* emitted bucket is round(attentive records of the bucket / records of    *)
(* the bucket * 100); the bucket totals sum to the number of records.      *)
(***************************************************************************)
C12_BucketsAndPercentages ==
  SeriesReturned =>
    /\ \A k \in 1..Len(records) :
         Cardinality({j \in 1..Len(series) :
            series[j].time = BucketKeyOf(records[k].timestamp, intervalSeconds)}) = 1
    /\ \A j \in 1..Len(series) :
         LET members == RecordsOfBucket(series[j].time)
         IN  /\ members # {}
             /\ MapGet(timeMap, series[j].time).total = Cardinality(members)
             /\ IsRounded(series[j].AttentivePct,
                          100 * Cardinality({k \in members : IsAttentive(records[k])}),
                          Cardinality(members))
    /\ BucketTotals(timeMap, 1) = Len(records)

\* 09:01:10 and 09:01:15 in one 10-second bucket, half of it attentive
C12_Witness ==
  /\ SeriesReturned
  /\ intervalSeconds = 10
  /\ Len(records) = 3
  /\ Len(series) = 2
  /\ \E j \in 1..2 :
       /\ series[j].time = <<"0", "9", ":", "0", "1", ":", "1", "0">>
       /\ series[j].AttentivePct = 50

(***************************************************************************)
(* C13: the sequence returned by getEngagementOverTime holds exactly one   *)
(* entry per distinct bucket key of the input and is in strictly ascending *)
(* lexicographic order of the key, whatever the order of the input.        *)
(***************************************************************************)
C13_OneEntryPerKeyAscending ==
  SeriesReturned =>
    /\ {series[j].time : j \in 1..Len(series)}
         = {BucketKeyOf(records[k].timestamp, intervalSeconds) : k \in 1..Len(records)}
    /\ \A j1, j2 \in 1..Len(series) :
         j1 < j2 => LexLess(series[j1].time, series[j2].time)

\* three buckets given latest first
C13_Witness ==
  /\ SeriesReturned
  /\ Len(series) = 3
  /\ Len(records) = 3
  /\ SameDay
  /\ records[1].timestamp > records[2].timestamp
  /\ records[2].timestamp > records[3].timestamp

(***************************************************************************)
(* C14: with intervalSeconds = 300 getEngagementOverTime groups records    *)
(* into buckets five minutes wide: two records of one hour whose           *)
(* timestamps are in the same five-minute window (09:01:10 and 09:03:50)   *)
(* get the same key and are aggregated into one entry.                     *)
(***************************************************************************)
C14_FiveMinuteBuckets ==
  (SeriesReturned /\ intervalSeconds = 300) =>
    \A k1, k2 \in 1..Len(records) :
      records[k1].timestamp \div 300 = records[k2].timestamp \div 300 =>
        \E j \in 1..Len(series) :
          /\ k1 \in RecordsOfBucket(series[j].time)
          /\ k2 \in RecordsOfBucket(series[j].time)

(***************************************************************************)
(* C15: when all timestamps are within one calendar day, the entries       *)
(* returned by getEngagementOverTime are in chronological order of their   *)
(* buckets, also when the input records are out of order.                  *)
(***************************************************************************)
EntryOfRecord(k) ==
  CHOOSE j \in 1..Len(series) :
    series[j].time = BucketKeyOf(records[k].timestamp, intervalSeconds)

C15_ChronologicalWithinDay ==
  (SeriesReturned /\ SameDay) =>
    \A k1, k2 \in 1..Len(records) :
      EntryOfRecord(k1) < EntryOfRecord(k2) =>
        records[k1].timestamp < records[k2].timestamp

\* 10:00:00 given before 23:59:55 and 09:03:50
C15_Witness ==
  /\ SeriesReturned
  /\ Len(series) = 3
  /\ SameDay
  /\ records[1].timestamp = 10 * 3600
  /\ records[2].timestamp > records[1].timestamp
  /\ records[3].timestamp < records[1].timestamp
  /\ series[1].time = BucketKeyOf(records[3].timestamp, intervalSeconds)

(***************************************************************************)
(* C11: given an empty record sequence, calculateStudentSummaries returns  *)
(* an empty sequence, getBehaviorBreakdown returns the four buckets each   *)
(* with value 0, and getEngagementOverTime returns an empty sequence; none *)
(* of the three raises an error: a call that has started returns.          *)
(***************************************************************************)
C11_EmptyInput ==
  records = <<>> =>
    /\ SummariesReturned => summaries = <<>>
    /\ BreakdownReturned =>
         breakdown = <<[name |-> "Studying/Attentive", value |-> Num(0)],
                       [name |-> "Talking in Class", value |-> Num(0)],
                       [name |-> "Sleeping", value |-> Num(0)],
                       [name |-> "Phone", value |-> Num(0)]>>
    /\ SeriesReturned => series = <<>>
    /\ pc = "summarize" => ENABLED SummariesReturn
    /\ pc = "breakdown" => ENABLED BreakdownReturn
    /\ pc = "series" => ENABLED SeriesReturn

C11_Witness ==
  /\ records = <<>>
  /\ pc = "idle"
  /\ done = {"summaries", "breakdown", "series"}

(***************************************************************************)
(* C19: the three reducers leave the input records unchanged, share no     *)
(* state between calls, and return equal results when called again on the  *)
(* same records, in any order of the calls.                                *)
(***************************************************************************)
C19_PureReducers ==
  [][/\ records' = records
     /\ pc = "summarize" => UNCHANGED <<counts, breakdown, timeMap, series>>
     /\ pc = "breakdown" => UNCHANGED <<studentMap, summaries, timeMap, series>>
     /\ pc = "series" => UNCHANGED <<studentMap, summaries, counts, breakdown>>
     /\ (pc = "summarize" /\ pc' = "idle" /\ SummariesReturned) =>
          summaries' = summaries
     /\ (pc = "breakdown" /\ pc' = "idle" /\ BreakdownReturned) =>
          breakdown' = breakdown
     /\ (pc = "series" /\ pc' = "idle" /\ SeriesReturned) =>
          series' = series
    ]_vars

\* a second call of calculateStudentSummaries, after the other two reducers,
\* about to return
C19_Witness ==
  /\ done = {"summaries", "breakdown", "series"}
  /\ pc = "summarize"
  /\ Len(records) = 2
  /\ idx = 3
  /\ Len(summaries) = 2
  /\ Len(series) = 2

(***************************************************************************)
(* loadActivityLog                                                         *)
(***************************************************************************)
LoadResolved == loadPc = "resolved"

SourceGaveText == source.fetch = "ok" /\ source.read = "ok"

\* a data line of the document without an activity field
LineWithoutActivity ==
  \E k \in 1..Len(source.doc.rows) : source.doc.rows[k].nfields < 3

\* every data line of the document has its four fields
WellFormed ==
  \A k \in 1..Len(source.doc.rows) : source.doc.rows[k].nfields = 4

\* the record that data line k of the document stands for
RecordOfRow(k) ==
  [timestamp |-> IntervalKey(StartOfLog + k - 1, 1),
   studentId |-> Num(source.doc.rows[k].studentId),
   activity |-> CharsOf(source.doc.rows[k].activity),
   confidence |-> Num(ConfidenceAt(k))]

\* C16: loadActivityLog never rejects: the promise is pending or resolved,
\* and when the fetch fails, the reading of the body fails or the parse
\* throws, it resolves to the empty sequence after logging.
C16_NeverRejects ==
  /\ loadPc \in {"idle", "fetch", "text", "resolved"}
  /\ (LoadResolved
        /\ (source.fetch = "fail" \/ source.read = "fail" \/ LineWithoutActivity))
       => (loaded = <<>> /\ logged)

C16_Witness ==
  /\ LoadResolved
  /\ SourceGaveText
  /\ Len(source.doc.rows) = 2
  /\ source.doc.rows[1].nfields = 4
  /\ source.doc.rows[2].nfields = 1
  /\ logged

\* C17: for a well-formed text of n lines the first line is discarded and
\* n-1 records are returned, record i parsed from line i+1 in file order:
\* the timestamp and the activity trimmed, the studentId parsed as an
\* integer, the confidence as a float; an empty or header-only text gives
\* no record.
C17_WellFormedText ==
  (LoadResolved /\ SourceGaveText /\ WellFormed)
    => /\ ~logged
       /\ Len(loaded) = Len(source.doc.rows)
       /\ \A k \in 1..Len(loaded) : loaded[k] = RecordOfRow(k)

C17_Witness ==
  /\ LoadResolved
  /\ SourceGaveText
  /\ WellFormed
  /\ source.doc.pad
  /\ source.doc.newline
  /\ Len(loaded) = 2
  /\ loaded[1].studentId = Num(12)
  /\ loaded[2].activity = CharsOf(TALKING)

\* C18: a data line with 1, 2 or 3 fields still gives a record, NaN where
\* a number is missing, and the records of all other lines are returned
\* with it: the line is not skipped and the other records are not lost.
C18_ShortLineKept ==
  (/\ LoadResolved
   /\ SourceGaveText
   /\ \A k \in 1..Len(source.doc.rows) : source.doc.rows[k].nfields <= 4
   /\ ~WellFormed)
    => /\ Len(loaded) = Len(source.doc.rows)
       /\ \A k \in 1..Len(loaded) :
            /\ loaded[k].timestamp = RecordOfRow(k).timestamp
            /\ source.doc.rows[k].nfields = 4 => loaded[k] = RecordOfRow(k)
            /\ source.doc.rows[k].nfields < 4 => loaded[k].confidence = NaN
            /\ source.doc.rows[k].nfields < 2 => loaded[k].studentId = NaN

(***************************************************************************)
(* The Analysis page                                                       *)
(***************************************************************************)
\* C20 as stated: no aggregation runs before loadActivityLog has resolved,
\* and every aggregation that runs is given the complete loaded records.
C20_NoAggregationBeforeLoad ==
  \A e \in ran : e.resolved /\ e.input = loaded

\* C20: calculateStudentSummaries and the engagement series never run before
\* loadActivityLog has resolved; getBehaviorBreakdown also runs in the first
\* render, on the empty initial records; every aggregation is given either
\* those empty initial records or the complete loaded records, never a part
\* of them, and the page shown is computed from the complete records.
C20_AggregationsSeeAllOrNothing ==
  /\ \A e \in ran :
       \/ e.resolved /\ e.input = loaded
       \/ ~e.resolved /\ e.fn = "getBehaviorBreakdown" /\ e.input = <<>>
  /\ pagePc \in {"updated", "shown"} => records = loaded
  /\ pagePc = "shown" => pieData = GetBehaviorBreakdown(loaded)

C20_Witness ==
  /\ pagePc = "shown"
  /\ Len(loaded) = 2
  /\ [fn |-> "getBehaviorBreakdown", input |-> <<>>, resolved |-> FALSE] \in ran
  /\ [fn |-> "getBehaviorBreakdown", input |-> loaded, resolved |-> TRUE] \in ran
  /\ [fn |-> "engagementOverTime", input |-> loaded, resolved |-> TRUE] \in ran
  /\ [fn |-> "calculateStudentSummaries", input |-> loaded, resolved |-> TRUE] \in ran

(***************************************************************************)
(* Denominators                                                            *)
(***************************************************************************)
\* C21: no percentage is computed with a zero denominator: every summary
\* in the map of calculateStudentSummaries has at least one record and every
\* bucket in the map of getEngagementOverTime has total >= 1, at every step
\* of the calls, so every engagementPct and AttentivePct returned is a
\* number from 0 to 100.
C21_NoZeroDenominator ==
  /\ \A j \in 1..Len(studentMap) :
       /\ studentMap[j].value.totalMinutes >= 1
       /\ studentMap[j].value.totalMinutes = Len(studentMap[j].value.timeline)
  /\ \A j \in 1..Len(timeMap) : timeMap[j].value.total >= 1
  /\ \A j \in 1..Len(summaries) : summaries[j].engagementPct \in 0..100
  /\ \A j \in 1..Len(series) : series[j].AttentivePct \in 0..100

\* both reducers have returned; one student has no attentive frame
C21_Witness ==
  /\ SummariesReturned
  /\ SeriesReturned
  /\ pc = "idle"
  /\ Len(summaries) = 2
  /\ summaries[2].engagementPct = 0
  /\ Len(series) >= 1
  /\ Len(timeMap) >= 1

(***************************************************************************)
(* Analysis: loading                                                       *)
(***************************************************************************)
\* the awaits of loadActivityLog have settled
LoadSettled == loadPc \notin {"idle", "fetch", "text"}

\* C22: loading starts true and changes only once, from true to false, when
\* the load promise has resolved; whenever loading is false, students is the
\* mapped output of calculateStudentSummaries over the current records; and
\* once the awaits of the loader have settled, by success or by failure,
\* loading becomes false.
C22_LoadingOnce ==
  /\ [](pagePc \in {"unmounted", "rendered", "waiting"} => loading)
  /\ [][loading' # loading => (loading /\ ~loading' /\ loadPc = "resolved")]_vars
  /\ [](~loading =>
          students = StudentActivities(CalculateStudentSummaries(records)))
  /\ (LoadSettled ~> ~loading)

C22_Witness ==
  /\ ~loading
  /\ pagePc = "shown"
  /\ Len(records) = 1
  /\ Len(students) = 1
  /\ ~logged

\* the fetch failed and the page left the loading screen
C22_WitnessFailure ==
  /\ ~loading
  /\ source.fetch = "fail"
  /\ logged
  /\ students = <<>>

(***************************************************************************)
(* Analysis: the five-minute series                                        *)
(***************************************************************************)
\* H:MM of the instant t, MM floored to a multiple of five
FiveMinuteKeyOf(t) ==
  LET secondOfDay == t % (24 * 3600)
      hh == secondOfDay \div 3600
      mm == (secondOfDay % 3600) \div 60
  IN  (IF hh < 10 THEN <<DigitChars[hh + 1]>> ELSE TwoDigits(hh))
        \o <<":">> \o TwoDigits(mm - (mm % 5))

PointOfRecord(k) ==
  CHOOSE j \in 1..Len(engagementOverTimeData) :
    engagementOverTimeData[j].time = FiveMinuteKeyOf(records[k].timestamp)

\* C23: the five-minute engagement series of the Analysis page is in
\* chronological order when all records lie within one calendar day, also
\* from a one-digit hour into a two-digit hour.
C23_FiveMinuteChronological ==
  (pagePc = "shown" /\ SameDay) =>
    /\ \A k \in 1..Len(records) :
         \E j \in 1..Len(engagementOverTimeData) :
           engagementOverTimeData[j].time = FiveMinuteKeyOf(records[k].timestamp)
    /\ \A k1, k2 \in 1..Len(records) :
         PointOfRecord(k1) < PointOfRecord(k2) =>
           records[k1].timestamp < records[k2].timestamp

(***************************************************************************)
(* Minutes                                                                 *)
(***************************************************************************)
\* C24: in every summary returned by calculateStudentSummaries
\* attentiveMinutes and inattentiveMinutes are at most totalMinutes and
\* their sum differs from totalMinutes by at most 1; in the map, before the
\* rounding, attentive frames + inattentive frames = total frames.
C24_MinutesAddUp ==
  /\ \A j \in 1..Len(studentMap) :
       studentMap[j].value.attentiveMinutes + studentMap[j].value.inattentiveMinutes
         = studentMap[j].value.totalMinutes
  /\ SummariesReturned =>
       \A j \in 1..Len(summaries) :
         /\ summaries[j].attentiveMinutes <= summaries[j].totalMinutes
         /\ summaries[j].inattentiveMinutes <= summaries[j].totalMinutes
         /\ summaries[j].attentiveMinutes + summaries[j].inattentiveMinutes
              - summaries[j].totalMinutes \in {-1, 0, 1}

\* a summary whose two parts are both rounded up
C24_Witness ==
  /\ SummariesReturned
  /\ \E j \in 1..Len(summaries) :
       summaries[j].attentiveMinutes + summaries[j].inattentiveMinutes
         = summaries[j].totalMinutes + 1

\* a summary whose two parts are both rounded down
C24_WitnessBelow ==
  /\ SummariesReturned
  /\ \E j \in 1..Len(summaries) :
       summaries[j].attentiveMinutes + summaries[j].inattentiveMinutes
         = summaries[j].totalMinutes - 1

(***************************************************************************)
(* CameraFeed                                                              *)
(***************************************************************************)
\* C25: from every state in which the camera is active, if it stays active
\* and mounted, detectFaces is eventually invoked, whatever the readyState
\* of the video element was when isActive became true.
C25_DetectionRuns ==
  (camMounted /\ isActive) ~> (detectedFaces > 0 \/ ~isActive \/ ~camMounted)

\* C26: whenever isActive is true a media stream is held; stopCamera on a
\* held stream stops its tracks and leaves stream null, isActive false and
\* detectedFaces empty.
C26_ActiveHoldsStream ==
  /\ [](isActive => (stream # 0 /\ (camMounted => stream \in live)))
  /\ [][(camMounted' /\ isActive /\ ~isActive') =>
          (stream' = 0 /\ stream \notin live' /\ detectedFaces' = 0)]_vars

\* the camera was started, faces were detected, and it has just been stopped
C26_Witness ==
  /\ camMounted
  /\ ~isActive
  /\ stream = 0
  /\ srcObject = 1
  /\ live = {}
  /\ inFlight = {}
  /\ detectedFaces = 0
  /\ detectInterval
  /\ effectDue

\* a call of getUserMedia has settled without giving a stream
StartFailed ==
  /\ inFlight' # inFlight
  /\ inFlight' \subseteq inFlight
  /\ live' = live

\* C27: when getUserMedia fails the component stays inactive with no stream
\* held; when no call of getUserMedia is in flight isLoading is false, and
\* while one is in flight isLoading is true and no other can be started:
\* at most one call is in flight.
C27_StartSettles ==
  /\ [](Cardinality(inFlight) <= 1)
  /\ [](camMounted => (isLoading <=> inFlight # {}))
  /\ [][StartFailed =>
          (~isActive' /\ stream' = 0 /\ (camMounted => ~isLoading'))]_vars

\* a second start has failed after a first one that failed too
C27_Witness ==
  /\ camMounted
  /\ started = 2
  /\ inFlight = {}
  /\ live = {}
  /\ srcObject = 0
  /\ ~isActive
  /\ ~isLoading
  /\ stream = 0

\* C28: every media stream obtained from getUserMedia is released, all its
\* tracks stopped, once the camera is stopped or the component is unmounted,
\* also when the component is unmounted while getUserMedia is pending.
C28_StreamsReleased ==
  \A call \in 1..MaxStarts :
    (call \in live /\ (~camMounted \/ ~isActive)) ~> (call \notin live)

(***************************************************************************)
(* ClassroomDashboard                                                      *)
(***************************************************************************)
\* the counts of a point are within 0..total and add up to total
PointAddsUp(point) ==
  /\ \A b \in {"Attentive", "Sleeping", "Phone", "Talking"} :
       point[b] \in 0..point.total
  /\ point.Attentive + point.Sleeping + point.Phone + point.Talking = point.total
  /\ point.attentivePct = MathRound(point.Attentive * 100, point.total)
  /\ point.attentivePct \in 0..100

\* C29: after any number of ticks sessionPoints is not empty and has at most
\* 120 entries, a tick over the limit dropping the oldest one; in every point
\* Attentive, Sleeping, Phone and Talking are each between 0 and total and
\* add up to total, and attentivePct is round(Attentive / total * 100), a
\* number of 0..100.
C29_SessionPoints ==
  /\ [](/\ Len(sessionPoints) \in 1..SessionLimit
        /\ \A k \in 1..Len(sessionPoints) : PointAddsUp(sessionPoints[k]))
  /\ [][ticks' # ticks =>
          /\ sessionPoints'[Len(sessionPoints')].time
               = <<"n", "o", "w", "+">> \o NumberToString(TickSeconds * ticks')
          /\ SubSeq(sessionPoints', 1, Len(sessionPoints') - 1)
               = IF Len(sessionPoints) = SessionLimit
                   THEN Tail(sessionPoints) ELSE sessionPoints]_vars

\* two ticks have passed: the two oldest points are gone, and the last
\* point has phones and talkers
C29_Witness ==
  /\ ticks = 2
  /\ Len(sessionPoints) = SessionLimit
  /\ sessionPoints[1].time = <<"1", ":", "0", "0">>
  /\ sessionPoints[SessionLimit].Phone > 0
  /\ sessionPoints[SessionLimit].Talking > 0
  /\ sessionPoints[SessionLimit].Sleeping > 0

(***************************************************************************)
(* Attendance                                                              *)
(***************************************************************************)
\* presentCount + absentCount + lateCount = totalStudents over a full roster
RosterFull ==
  /\ Len(roster) = RosterTotalStudents
  /\ StatusCount(roster, "present") + StatusCount(roster, "absent")
       + StatusCount(roster, "late") = RosterTotalStudents

\* a step changes at most one student, from absent to present
MarksAtMostOne ==
  /\ Len(roster') = Len(roster)
  /\ Cardinality({k \in 1..Len(roster) : roster'[k] # roster[k]}) <= 1
  /\ \A k \in 1..Len(roster) :
       roster'[k] # roster[k] =>
         (roster[k].status = "absent" /\ roster'[k].status = "present")
  /\ StatusCount(roster', "present") >= StatusCount(roster, "present")

\* C30: every faces-detected event changes at most one student, and only
\* from absent to present, so that presentCount never decreases; the roster
\* has totalStudents entries and presentCount + absentCount + lateCount =
\* totalStudents in every state.
C30_RosterInEveryState ==
  /\ []RosterFull
  /\ [][~rosterDue => MarksAtMostOne]_vars

====
